---- MODULE Spec2Model ----
(***************************************************************************)
(* Verification model of the Obliterator wiping engine                     *)
(* (src/new_ver/new_claude_ver/wiping-engine.py).                          *)
(*                                                                         *)
(* One WipingEngine object runs one wipe_device() call on a worker thread  *)
(* while other threads call request_stop(), request_pause() and resume().  *)
(* The device is modelled byte by byte; the 4096-byte pattern buffer and   *)
(* the 100 MiB sampling limit are scaled down (PatternLen, SampleLimit) so *)
(* that the arithmetic of _write_pattern and _verify_pattern is kept.      *)
(***************************************************************************)
EXTENDS Integers, Sequences, FiniteSets, TLC

VARIABLES
    \* ---- the device and its surroundings (the environment)
    devSize,          \* size in bytes the block device currently reports
    disk,             \* disk[i]: the byte stored at offset i of the medium
    hpa,              \* a Host Protected Area hides the last HiddenBytes bytes
    dco,              \* a Device Configuration Overlay is enabled
    ataSec,           \* ATA security feature set: "none", "supported", "frozen"
    nvme,             \* NVMe controller that accepts sanitize/format
    procMounts,       \* the lines of /proc/mounts
    passwordSet,      \* the drive holds the engine's temporary ATA password
    \* ---- arguments of wipe_device
    method,           \* "clear", "purge", "destroy"
    dry_run,
    confirm_token,    \* the token text handed to wipe_device
    \* ---- WipingEngine fields
    status,           \* WipeStatus
    stop_requested,
    pause_requested,
    current_wipe,     \* TRUE while self.current_wipe holds the job's progress
    progress,         \* the job's WipeProgress record
    \* ---- the worker thread inside wipe_device and its locals
    pc,
    device_info,
    pattern,
    bytes_written,    \* the local of _write_pattern
    sample,           \* loop index i of _verify_pattern
    success,
    result,           \* "none", "true", "false", "raised"
    \* ---- a thread inside resume()
    rpc,
    \* ---- history of the job (observation only; no action reads it to decide)
    issued,           \* mutating commands issued to the device so far
    passLog,          \* one record per pass whose write loop ended
    outcome,          \* the terminal status wipe_device assigned, or "none"
    hwResult,         \* what the hardware erase command reported
    stopPhase,        \* where the worker was when stop was first requested
    writesAfterStop,  \* buffer writes done since stop was requested
    ioFailures,       \* which of "write", "read" raised an I/O error in the job
    mountedAtRequest, \* a filesystem of the target was mounted at the call
    systemAtRequest,  \* the target held the running system's root at the call
    \* ---- several threads inside wipe_device of one engine (CallsSpec)
    calls,            \* calls[c]: the position and locals of call c
    \* ---- device detection (ScanSpec)
    machine,          \* the block devices of the machine and how the tools answer
    scan,             \* the DeviceDetector inside detect_all_devices
    gui,              \* the ObliteratorGUI window: device list, selection, wipe thread
    probe,            \* one call of a capability probe: tool outcome and answer
    parse,            \* one call of _parse_size: the text and the value returned
    \* ---- the windows that offer certificates after a wipe (CertSpec)
    cert              \* drives chosen, wipe bookkeeping, certificates produced

envVars  == <<devSize, disk, hpa, dco, ataSec, nvme, procMounts, passwordSet>>
argVars  == <<method, dry_run, confirm_token>>
flagVars == <<stop_requested, pause_requested>>
workVars == <<pc, device_info, pattern, bytes_written, sample, success, result>>
histVars == <<issued, passLog, outcome, hwResult, stopPhase, writesAfterStop,
              ioFailures, mountedAtRequest, systemAtRequest>>
\* the variables of the specifications that do not run the single job above
callVars == <<calls>>
scanVars == <<machine, scan>>
guiVars == <<gui>>
\* the variables of the specifications of single functions
auxVars == <<probe, parse, cert>>
sideVars == <<callVars, scanVars, guiVars, auxVars>>
\* the variables of the single-job specification
engineVars == <<envVars, argVars, status, flagVars, current_wipe, progress,
                workVars, rpc, histVars>>
vars == <<engineVars, sideVars>>

(***************************************************************************)
(* Bounds and scaled sizes                                                 *)
(***************************************************************************)
\* len(pattern): 4096 in the source, scaled
PatternLen == 2
\* the sampling limit of _verify_pattern: 100 MiB in the source, scaled
SampleLimit == 3
\* sample_count of _verify_pattern: 10 in the source, scaled
SampleCount == 2
\* a device no larger than the sampling limit
SmallDevSize == 3
\* a device larger than the sampling limit
LargeDevSize == 5
\* bytes hidden behind a Host Protected Area
HiddenBytes == 1

\* byte values of the user's data before the wipe (os.urandom delivers 1
\* or 2)
DataBytes == {7}

Min(a, b) == IF a < b THEN a ELSE b

(***************************************************************************)
(* /proc/mounts and _check_mounted                                         *)
(***************************************************************************)
\* device_path: "/dev/sda", as characters
DevicePath == <<"/", "d", "e", "v", "/", "s", "d", "a">>

\* The lines /proc/mounts can hold: the device field as characters, the mount
\* point, and whether the filesystem lives on the target disk.  A partition
\* is named after its disk; a logical volume on the disk is not.
\* "/dev/sda1 /data", "/dev/dm-0 /" and "/dev/sdb1 /mnt"
MountLines ==
    [PartitionLine |->
        [src |-> <<"/", "d", "e", "v", "/", "s", "d", "a", "1">>,
         mp |-> "/data", onTarget |-> TRUE],
     VolumeLine |->
        [src |-> <<"/", "d", "e", "v", "/", "d", "m", "-", "0">>,
         mp |-> "/", onTarget |-> TRUE],
     OtherLine |->
        [src |-> <<"/", "d", "e", "v", "/", "s", "d", "b", "1">>,
         mp |-> "/mnt", onTarget |-> FALSE]]
MountTables ==
    {{MountLines.OtherLine}, {MountLines.PartitionLine}, {MountLines.VolumeLine}}

\* Python's  needle in text  on strings
IsSubstring(needle, text) ==
    \E k \in 0..(Len(text) - Len(needle)) :
        \A j \in 1..Len(needle) : text[k + j] = needle[j]

\* _check_mounted: device_path in mounts; any exception gives False
CheckMounted(readable) ==
    /\ readable
    /\ \E line \in procMounts : IsSubstring(DevicePath, line.src)

TargetMounted == \E line \in procMounts : line.onTarget
TargetIsSystem == \E line \in procMounts : line.onTarget /\ line.mp = "/"

(***************************************************************************)
(* Capability probes                                                       *)
(***************************************************************************)
\* how a call of an external tool ends: exit code zero, a non-zero exit
\* code, or an exception (a timeout, a missing tool)
ToolOutcomes == {"ok", "fail", "timeout"}

\* Each probe runs one tool; with tool outcome  r  it answers what the tool
\* printed only when the tool exited with zero, and False otherwise.
\* _check_ata_secure_erase: 'security' and 'erase' in the identify output
CheckAtaSecureErase(r) == r = "ok" /\ ataSec # "none"
\* _check_nvme_secure_erase: 'nvme' in the device path and 'sanitize' or
\* 'format' in the id-ctrl output (an NVMe target has an nvme path)
CheckNvmeSecureErase(r) == r = "ok" /\ nvme
\* an HPA probe that answers from the drive alone
CheckHpaAnyOutcome(r) == hpa
\* _check_hpa: '/' in the output of hdparm -N
CheckHpa(r) == r = "ok" /\ hpa
\* _check_dco: 'enabled' in the output of hdparm --dco-identify
CheckDco(r) == r = "ok" /\ dco

(***************************************************************************)
(* Passes and patterns                                                     *)
(***************************************************************************)
NoData == <<>>

WipePass(id, name, type, data) ==
    [pass_id |-> id, name |-> name, pattern_type |-> type,
     pattern_data |-> data, verify |-> TRUE]

\* self.wipe_patterns
WipePatternsSwapped(m) ==
    IF m = "clear"
    THEN << WipePass(1, "Single Random Pass", "random", NoData) >>
    ELSE << WipePass(1, "Random Pass 1", "random", NoData),
            WipePass(2, "Random Pass 2", "random", NoData),
            WipePass(3, "Complement Pass", "complement", NoData),
            WipePass(4, "Pattern Pass (0x55)", "pattern", <<85>>),
            WipePass(5, "Final Zero Pass", "zeros", NoData) >>
WipePatterns(m) ==
    IF m = "clear"
    THEN << WipePass(1, "Single Random Pass", "random", NoData) >>
    ELSE << WipePass(1, "Random Pass 1", "random", NoData),
            WipePass(2, "Complement Pass", "complement", NoData),
            WipePass(3, "Random Pass 2", "random", NoData),
            WipePass(4, "Pattern Pass (0x55)", "pattern", <<85>>),
            WipePass(5, "Final Zero Pass", "zeros", NoData) >>

\* _generate_complement_pattern: 0xAA at even offsets, 0x55 at odd ones
GenerateComplementPattern ==
    [i \in 1..PatternLen |-> IF (i - 1) % 2 = 0 THEN 170 ELSE 85]

\* the pattern choice of _multipass_wipe; os.urandom may deliver any buffer
GeneratePatterns(pass_info) ==
    CASE pass_info.pattern_type = "random" -> [1..PatternLen -> {1, 2}]
      [] pass_info.pattern_type = "zeros" -> {[i \in 1..PatternLen |-> 0]}
      [] pass_info.pattern_type = "ones" -> {[i \in 1..PatternLen |-> 255]}
      [] pass_info.pattern_type = "pattern" ->
            {[i \in 1..(Len(pass_info.pattern_data)
                          * (PatternLen \div Len(pass_info.pattern_data))) |->
                pass_info.pattern_data[((i - 1) % Len(pass_info.pattern_data)) + 1]]}
      [] pass_info.pattern_type = "complement" -> {GenerateComplementPattern}
      [] OTHER -> {}

(***************************************************************************)
(* Raw device I/O                                                          *)
(***************************************************************************)
\* device.write(chunk) at file position  pos
WriteAt(d, pos, chunk) ==
    [i \in DOMAIN d |->
        IF pos <= i /\ i < pos + Len(chunk) THEN chunk[i - pos + 1] ELSE d[i]]

\* device.seek(offset); device.read(n): short at the end of the device
ReadAt(d, size, offset, n) ==
    [j \in 1..Min(n, size - offset) |-> d[offset + j - 1]]

\* a chunk that is always the whole pattern
ChunkSizeWhole(pat, device_size, written) == Len(pat)
\* the chunk of one loop iteration of _write_pattern
ChunkSize(pat, device_size, written) == Min(Len(pat), device_size - written)

\* the sample position of _verify_pattern for loop index i
SampleOffset(device_size, pat, i) ==
    IF device_size > Min(device_size, SampleLimit)
    THEN ((device_size - Len(pat)) \div SampleCount) * i
    ELSE 0

\* the byte range 0..n-1 of the medium holds the pattern, repeated
Covered(d, pat, n) ==
    \A i \in 0..(n - 1) : d[i] = pat[(i % Len(pat)) + 1]

(***************************************************************************)
(* Initial states: a fresh engine, a device, and the arguments of the call  *)
(***************************************************************************)
Methods == {"clear", "purge", "destroy"}

DeviceProfiles ==
    [PlainDevice |-> [ataSec |-> "none", nvme |-> FALSE, hpa |-> FALSE, dco |-> FALSE],
     HiddenDevice |-> [ataSec |-> "none", nvme |-> FALSE, hpa |-> TRUE, dco |-> FALSE],
     AtaDevice |-> [ataSec |-> "supported", nvme |-> FALSE, hpa |-> FALSE, dco |-> TRUE],
     FrozenDevice |-> [ataSec |-> "frozen", nvme |-> FALSE, hpa |-> FALSE, dco |-> FALSE],
     NvmeDevice |-> [ataSec |-> "none", nvme |-> TRUE, hpa |-> FALSE, dco |-> FALSE]]

\* device_info, without the entries that only _show_wipe_plan prints
\* (size_human, block_size, has_hpa, has_dco)
\* the confirm_token values a caller hands over: the token of /dev/sda, the
\* same in lower case, and an empty text
Tokens ==
    {<<"O", "B", "L", "I", "T", "E", "R", "A", "T", "E", "-", "S", "D", "A">>,
     <<"o", "b", "l", "i", "t", "e", "r", "a", "t", "e", "-", "s", "d", "a">>,
     <<>>}

NoInfo ==
    [size_bytes |-> 0, supports_ata_secure_erase |-> FALSE,
     supports_nvme_secure_erase |-> FALSE, is_mounted |-> FALSE]

NoProgress ==
    [current_pass |-> 0, total_passes |-> 0, pass_name |-> "",
     bytes_written |-> 0, total_bytes |-> 0, verification_status |-> "pending",
     errors |-> <<>>,
     \* the clock reading the sanitize-log loop stores, modulo 2
     elapsed_time |-> 0]

\* The device configurations: every profile unmounted, the plain profile
\* also on the large device and with each mount table.  (The size matters to
\* the write and verify loops, the profile to the probes and commands, the
\* mount table to the mounted test.)
EngineInit ==
    /\ \E prof \in {DeviceProfiles[k] : k \in DOMAIN DeviceProfiles},
          size \in {SmallDevSize, LargeDevSize}, mt \in MountTables :
         /\ prof # DeviceProfiles.PlainDevice =>
               size = SmallDevSize /\ mt = {MountLines.OtherLine}
         /\ size = LargeDevSize => mt = {MountLines.OtherLine}
         /\ devSize = size
         /\ disk \in [0..(size + (IF prof.hpa THEN HiddenBytes ELSE 0) - 1) -> DataBytes]
         /\ hpa = prof.hpa
         /\ dco = prof.dco
         /\ ataSec = prof.ataSec
         /\ nvme = prof.nvme
         /\ procMounts = mt
    /\ passwordSet = FALSE
    /\ method \in Methods
    /\ dry_run \in BOOLEAN
    \* a token other than the upper-case one comes with a Clear of the plain,
    \* small, unmounted device only (no step of wipe_device reads the token)
    /\ confirm_token \in Tokens
    /\ confirm_token # <<"O", "B", "L", "I", "T", "E", "R", "A", "T", "E", "-", "S", "D", "A">> =>
          /\ devSize = SmallDevSize /\ procMounts = {MountLines.OtherLine}
          /\ ataSec = "none" /\ ~nvme /\ ~hpa /\ ~dco
          /\ method = "clear" /\ ~dry_run
    \* WipingEngine.__init__
    /\ status = "ready"
    /\ stop_requested = FALSE
    /\ pause_requested = FALSE
    /\ current_wipe = FALSE
    /\ progress = NoProgress
    /\ pc = "idle"
    /\ device_info = NoInfo
    /\ pattern = <<>>
    /\ bytes_written = 0
    /\ sample = 0
    /\ success = FALSE
    /\ result = "none"
    /\ rpc = "idle"
    /\ issued = {}
    /\ passLog = <<>>
    /\ outcome = "none"
    /\ hwResult = "none"
    /\ stopPhase = "none"
    /\ writesAfterStop = 0
    /\ ioFailures = {}
    /\ mountedAtRequest = TargetMounted
    /\ systemAtRequest = TargetIsSystem

\* the threads that may call wipe_device of one engine at the same time
Calls == {1, 2}

\* a call that has not been made
NoCall ==
    [pc |-> "idle", method |-> "destroy", dry_run |-> FALSE, current_pass |-> 0,
     bytes_written |-> 0, success |-> FALSE, result |-> "none",
     writes |-> 0, busyAtEntry |-> FALSE]

\* no machine is scanned
NoMachine == [devices |-> {}, lsblk |-> "fail", proc_readable |-> FALSE]
NoScan == [pc |-> "idle", devices |-> {}, result |-> {}]
\* no window is open
NoGui == [pc |-> "closed", widgets |-> FALSE, devices |-> {},
          device_checkboxes |-> {}, checked |-> {}, selected_devices |-> {},
          queue |-> {}, wiped |-> {},
          dialog |-> "none", cancelled |-> FALSE, job |-> "none"]

\* no probe is called on its own
NoProbe == [pc |-> "idle", kind |-> "none", tool |-> "ok", answer |-> FALSE]
\* no size text is parsed on its own
NoParse == [pc |-> "idle", size_str |-> <<>>, value |-> 0]
\* no window that offers certificates is open
NoCert == [flow |-> "none", screen |-> "closed", pc |-> "idle",
           wipe_script |-> FALSE, selected_drives |-> <<>>, i |-> 0,
           wipe_in_progress |-> FALSE, results |-> <<>>, wipe_results |-> <<>>,
           message |-> "none", files |-> {},
           device_queue |-> <<>>, current |-> "none", wiped_devices |-> <<>>,
           todo |-> <<>>, success_count |-> 0,
           wipe_outcome |-> <<>>, invoked |-> {},
           process |-> "none", stdout |-> "none", q_out |-> "none",
           log |-> <<>>]
\* the single functions are not exercised
AuxParked == probe = NoProbe /\ parse = NoParse /\ cert = NoCert

\* one wipe_device call on a fresh engine; no other call is made
Init ==
    /\ EngineInit
    /\ calls = [c \in Calls |-> NoCall]
    /\ machine = NoMachine
    /\ scan = NoScan
    /\ gui = NoGui
    /\ AuxParked

\* the engine with the job of the single-job specification never started
EngineParked ==
    /\ EngineInit
    /\ devSize = SmallDevSize /\ procMounts = {MountLines.OtherLine}
    /\ ataSec = "none" /\ ~nvme /\ ~hpa /\ ~dco
    /\ method = "destroy" /\ ~dry_run

(***************************************************************************)
(* Control calls from other threads                                        *)
(***************************************************************************)

PhaseNow ==
    CASE pc \in {"wp_loop", "wp_pause", "wp_check", "wp_write"} ->
            IF status = "paused" THEN "paused" ELSE "write"
      [] pc = "vp_sample" -> "verify"
      [] OTHER -> "other"

\* request_stop (also reached from _signal_handler)
RequestStop ==
    /\ pc # "done"
    /\ stop_requested' = TRUE
    /\ stopPhase' = IF stopPhase = "none" THEN PhaseNow ELSE stopPhase
    /\ UNCHANGED <<envVars, argVars, sideVars, status, pause_requested, current_wipe,
                   progress, workVars, rpc, issued, passLog, outcome, hwResult,
                   writesAfterStop, ioFailures, mountedAtRequest,
                   systemAtRequest>>

\* request_pause
RequestPause ==
    /\ pc # "done"
    /\ pause_requested' = TRUE
    /\ UNCHANGED <<envVars, argVars, sideVars, status, stop_requested, current_wipe,
                   progress, workVars, rpc, histVars>>

\* resume: the test of self.status and the two assignments are separate
\* steps of the calling thread
ResumeTest == status = "paused"

ResumeCheck ==
    /\ pc # "done"
    /\ rpc = "idle"
    /\ rpc' = IF ResumeTest THEN "clear_pause" ELSE "idle"
    /\ UNCHANGED <<envVars, argVars, sideVars, status, flagVars, current_wipe, progress,
                   workVars, histVars>>

ResumeClearPause ==
    /\ rpc = "clear_pause"
    /\ pause_requested' = FALSE
    /\ rpc' = "set_status"
    /\ UNCHANGED <<envVars, argVars, sideVars, status, stop_requested, current_wipe,
                   progress, workVars, histVars>>

ResumeSetStatus ==
    /\ rpc = "set_status"
    /\ status' = "running"
    /\ rpc' = "idle"
    /\ UNCHANGED <<envVars, argVars, sideVars, flagVars, current_wipe, progress,
                   workVars, histVars>>

(***************************************************************************)
(* wipe_device on the worker thread: validation, device info, preparation  *)
(***************************************************************************)
ctlVars == <<stop_requested, pause_requested, rpc>>

\* leaving wipe_device by an exception raised before the job starts
Raise ==
    /\ pc' = "done"
    /\ result' = "raised"

\* a shortcut that is never taken
IsDestroyNever(m) == FALSE
\* if method == SanitizationMethod.DESTROY
IsDestroy(m) == m = "destroy"

\* the DESTROY shortcut and the existence/permission tests
Validate ==
    /\ pc = "idle"
    /\ IF IsDestroy(method)
       THEN pc' = "done" /\ result' = "true"
       ELSE \E accessible \in BOOLEAN :
              IF accessible THEN pc' = "info" /\ result' = result ELSE Raise
    /\ UNCHANGED <<envVars, argVars, sideVars, status, ctlVars, current_wipe, progress,
                   device_info, pattern, bytes_written, sample, success, histVars>>

\* a dry-run test that is never true
IsDryRunNever(flag) == FALSE
\* if dry_run
IsDryRun(flag) == flag

\* get_device_info, the dry-run return and the mounted test
GetDeviceInfo ==
    /\ pc = "info"
    /\ \E opened \in BOOLEAN, readable \in BOOLEAN,
          ra \in ToolOutcomes, rn \in ToolOutcomes :
         LET info == [size_bytes |-> devSize,
                      supports_ata_secure_erase |-> CheckAtaSecureErase(ra),
                      supports_nvme_secure_erase |-> CheckNvmeSecureErase(rn),
                      is_mounted |-> CheckMounted(readable)]
         IN  IF ~opened
             THEN Raise /\ device_info' = device_info
             ELSE /\ device_info' = info
                  /\ IF IsDryRun(dry_run)
                     THEN pc' = "done" /\ result' = "true"
                     ELSE IF info.is_mounted
                          THEN Raise
                          ELSE pc' = "prep_umount" /\ result' = result
    /\ UNCHANGED <<envVars, argVars, sideVars, status, ctlVars, current_wipe, progress,
                   pattern, bytes_written, sample, success, histVars>>

\* _unmount_device: umount every name lsblk lists for the disk.  A mounted
\* partition may or may not let go; a volume is not among the /dev names
\* built from the listing, so its umount fails.
PrepUnmount ==
    /\ pc = "prep_umount"
    /\ \E listed \in BOOLEAN, released \in BOOLEAN :
         IF listed
         THEN /\ issued' = issued \cup {"umount"}
              /\ procMounts' = IF released THEN procMounts \ {MountLines.PartitionLine}
                               ELSE procMounts
         ELSE UNCHANGED <<issued, procMounts>>
    /\ pc' = "prep_hpa"
    /\ UNCHANGED <<devSize, disk, hpa, dco, ataSec, nvme, passwordSet, argVars, sideVars,
                   status, ctlVars, current_wipe, progress, device_info, pattern,
                   bytes_written, sample, success, result, passLog, outcome,
                   hwResult, stopPhase, writesAfterStop, ioFailures,
                   mountedAtRequest, systemAtRequest>>

\* prepare_device: _check_hpa, then _remove_hpa (query, then set to maximum)
PrepHpa ==
    /\ pc = "prep_hpa"
    /\ \E r1 \in ToolOutcomes, r2 \in ToolOutcomes, r3 \in ToolOutcomes :
         IF CheckHpa(r1) /\ CheckHpa(r2)
         THEN /\ issued' = issued \cup {"hpa_reset"}
              /\ IF r3 = "ok"
                 THEN hpa' = FALSE /\ devSize' = devSize + HiddenBytes
                 ELSE UNCHANGED <<hpa, devSize>>
         ELSE UNCHANGED <<issued, hpa, devSize>>
    /\ pc' = "prep_dco"
    /\ UNCHANGED <<disk, dco, ataSec, nvme, procMounts, passwordSet, argVars, sideVars,
                   status, ctlVars, current_wipe, progress, device_info, pattern,
                   bytes_written, sample, success, result, passLog, outcome,
                   hwResult, stopPhase, writesAfterStop, ioFailures,
                   mountedAtRequest, systemAtRequest>>

\* a DCO step that runs the restore again after it failed
PrepDcoRetry ==
    /\ pc = "prep_dco"
    /\ \E r1 \in ToolOutcomes, r2 \in ToolOutcomes :
         IF CheckDco(r1)
         THEN /\ issued' = issued \cup {"dco_restore"}
              /\ dco' = (r2 # "ok")
              /\ pc' = IF r2 # "ok" THEN "prep_dco" ELSE "init"
         ELSE UNCHANGED <<issued, dco>> /\ pc' = "init"
    /\ UNCHANGED <<devSize, disk, hpa, ataSec, nvme, procMounts, passwordSet,
                   argVars, sideVars, status, ctlVars, current_wipe, progress, device_info,
                   pattern, bytes_written, sample, success, result, passLog,
                   outcome, hwResult, stopPhase, writesAfterStop, ioFailures,
                   mountedAtRequest, systemAtRequest>>

\* prepare_device: _check_dco, then _remove_dco
PrepDco ==
    /\ pc = "prep_dco"
    /\ \E r1 \in ToolOutcomes, r2 \in ToolOutcomes :
         IF CheckDco(r1)
         THEN /\ issued' = issued \cup {"dco_restore"}
              /\ dco' = (r2 # "ok")
         ELSE UNCHANGED <<issued, dco>>
    /\ pc' = "init"
    /\ UNCHANGED <<devSize, disk, hpa, ataSec, nvme, procMounts, passwordSet,
                   argVars, sideVars, status, ctlVars, current_wipe, progress, device_info,
                   pattern, bytes_written, sample, success, result, passLog,
                   outcome, hwResult, stopPhase, writesAfterStop, ioFailures,
                   mountedAtRequest, systemAtRequest>>

\* the choice between the hardware erase commands and the overwrite passes
ErasePath(m, info) ==
    IF m = "purge" /\ info.supports_ata_secure_erase THEN "ata_identify"
    ELSE IF m = "purge" /\ info.supports_nvme_secure_erase THEN "nvme_sanitize"
    ELSE "mp_begin"

\* progress tracking is initialised, the job becomes RUNNING
InitProgress ==
    /\ pc = "init"
    /\ progress' = [NoProgress EXCEPT
                      !.total_passes = Len(WipePatterns(method)),
                      !.pass_name = "Initializing",
                      !.total_bytes = device_info.size_bytes]
    /\ current_wipe' = TRUE
    /\ status' = "running"
    /\ pc' = ErasePath(method, device_info)
    /\ UNCHANGED <<envVars, argVars, sideVars, ctlVars, device_info, pattern,
                   bytes_written, sample, success, result, histVars>>

(***************************************************************************)
(* _multipass_wipe, _write_pattern and _verify_pattern                      *)
(***************************************************************************)
Passes == WipePatterns(method)
\* the pass the for loop of _multipass_wipe is in (pass_id is its position)
PassInfo == Passes[progress.current_pass]

\* an exception inside _write_pattern: recorded, the pass returns False
WriteFailedSilent(errs) == errs
WriteFailed(errs) == Append(errs, "Write failed")

\* the return value of _write_pattern when its loop has ended
WriteLoopResult(written, device_size) == written >= device_size

\* the loop head of _multipass_wipe: the stop test, the per-pass fields of
\* the progress record, the pattern, and the open() of _write_pattern
MpBegin ==
    /\ pc = "mp_begin"
    /\ IF progress.current_pass = Len(Passes)
       THEN /\ success' = TRUE
            /\ pc' = "finish"
            /\ UNCHANGED <<progress, pattern, bytes_written, ioFailures>>
       ELSE IF stop_requested
       THEN /\ success' = FALSE
            /\ pc' = "finish"
            /\ UNCHANGED <<progress, pattern, bytes_written, ioFailures>>
       ELSE LET pass_info == Passes[progress.current_pass + 1]
            IN  \E pat \in GeneratePatterns(pass_info), opened \in BOOLEAN :
                  /\ pattern' = pat
                  /\ IF opened
                     THEN /\ progress' = [progress EXCEPT
                                            !.current_pass = pass_info.pass_id,
                                            !.pass_name = pass_info.name,
                                            !.bytes_written = 0]
                          /\ bytes_written' = 0
                          /\ pc' = "wp_loop"
                          /\ success' = success
                          /\ ioFailures' = ioFailures
                     ELSE /\ progress' = [progress EXCEPT
                                            !.current_pass = pass_info.pass_id,
                                            !.pass_name = pass_info.name,
                                            !.bytes_written = 0,
                                            !.errors = WriteFailed(@)]
                          /\ bytes_written' = bytes_written
                          /\ pc' = "finish"
                          /\ success' = FALSE
                          /\ ioFailures' = ioFailures \cup {"write"}
    /\ UNCHANGED <<envVars, argVars, sideVars, status, ctlVars, current_wipe, device_info,
                   sample, result, issued, passLog, outcome, hwResult, stopPhase,
                   writesAfterStop, mountedAtRequest, systemAtRequest>>

\* the end of the write loop: final progress update and the return value;
\* a True return leads to the verification of the pass
WriteLoopExit ==
    LET ret == WriteLoopResult(bytes_written, progress.total_bytes)
    IN  /\ progress' = [progress EXCEPT !.bytes_written = bytes_written]
        /\ passLog' = Append(passLog,
                         [pass_id |-> PassInfo.pass_id,
                          name |-> PassInfo.name,
                          pattern_type |-> PassInfo.pattern_type,
                          pattern_data |-> PassInfo.pattern_data,
                          written |-> bytes_written,
                          covered |-> Covered(disk, pattern, progress.total_bytes)])
        /\ IF ret
           THEN /\ pc' = IF PassInfo.verify THEN "vp_sample" ELSE "mp_begin"
                /\ success' = success
           ELSE /\ pc' = "finish"
                /\ success' = FALSE
        /\ sample' = 0

\* while bytes_written < device_size and not self.stop_requested
WpLoop ==
    /\ pc = "wp_loop"
    /\ IF bytes_written < progress.total_bytes /\ ~stop_requested
       THEN /\ pc' = "wp_pause"
            /\ UNCHANGED <<progress, passLog, success, sample>>
       ELSE WriteLoopExit
    /\ UNCHANGED <<envVars, argVars, sideVars, status, ctlVars, current_wipe, device_info,
                   pattern, bytes_written, result, issued, outcome, hwResult,
                   stopPhase, writesAfterStop, ioFailures,
                   mountedAtRequest, systemAtRequest>>

\* a pause loop that is never entered
PauseHoldsNever == FALSE
\* the pause loop: one turn sets PAUSED and sleeps
PauseHolds == pause_requested /\ ~stop_requested

WpPause ==
    /\ pc = "wp_pause"
    /\ IF PauseHolds
       THEN status' = "paused" /\ pc' = "wp_pause"
       ELSE status' = status /\ pc' = "wp_check"
    /\ UNCHANGED <<envVars, argVars, sideVars, ctlVars, current_wipe, progress,
                   device_info, pattern, bytes_written, sample, success, result,
                   histVars>>

\* if self.stop_requested: break;  self.status = RUNNING
WpCheck ==
    /\ pc = "wp_check"
    /\ IF stop_requested
       THEN WriteLoopExit /\ status' = status
       ELSE /\ status' = "running"
            /\ pc' = "wp_write"
            /\ UNCHANGED <<progress, passLog, success, sample>>
    /\ UNCHANGED <<envVars, argVars, sideVars, ctlVars, current_wipe, device_info,
                   pattern, bytes_written, result, issued, outcome, hwResult,
                   stopPhase, writesAfterStop, ioFailures,
                   mountedAtRequest, systemAtRequest>>

\* one chunk is written, flushed and synced; any of these may raise
WpWrite ==
    /\ pc = "wp_write"
    /\ \E written \in BOOLEAN :
         LET chunk_size == ChunkSize(pattern, progress.total_bytes, bytes_written)
             chunk == SubSeq(pattern, 1, chunk_size)
         IN
         IF written /\ bytes_written + chunk_size <= devSize
         THEN     /\ disk' = WriteAt(disk, bytes_written, chunk)
                  /\ bytes_written' = bytes_written + chunk_size
                  /\ progress' = [progress EXCEPT
                                    !.bytes_written = bytes_written + chunk_size]
                  /\ issued' = issued \cup {"write"}
                  /\ writesAfterStop' = IF stop_requested THEN writesAfterStop + 1
                                        ELSE writesAfterStop
                  /\ pc' = "wp_loop"
                  /\ success' = success
                  /\ ioFailures' = ioFailures
         ELSE /\ progress' = [progress EXCEPT !.errors = WriteFailed(@)]
              /\ pc' = "finish"
              /\ success' = FALSE
              /\ ioFailures' = ioFailures \cup {"write"}
              /\ UNCHANGED <<disk, bytes_written, issued, writesAfterStop>>
    /\ UNCHANGED <<devSize, hpa, dco, ataSec, nvme, procMounts, passwordSet,
                   argVars, sideVars, status, ctlVars, current_wipe, device_info, pattern,
                   sample, result, passLog, outcome, hwResult, stopPhase,
                   mountedAtRequest, systemAtRequest>>

\* what _multipass_wipe stores after _verify_pattern returned  ok
VerificationStatus(old, ok) == IF ok THEN "passed" ELSE "failed"

\* one turn of the sampling loop of _verify_pattern, and what
\* _multipass_wipe does with the value returned
VpSample ==
    /\ pc = "vp_sample"
    /\ \E readable \in BOOLEAN :
         LET offset == SampleOffset(progress.total_bytes, pattern, sample)
             read_data == ReadAt(disk, devSize, offset, Len(pattern))
             finished == sample = SampleCount
             raised == ~finished /\ ~stop_requested /\ ~readable
             bad == ~finished /\ (stop_requested \/ ~readable \/ read_data # pattern)
         IN  IF finished \/ bad
             THEN /\ progress' = [progress EXCEPT !.verification_status =
                                    VerificationStatus(@, finished)]
                  /\ pc' = "mp_begin"
                  /\ sample' = sample
                  /\ ioFailures' = IF raised THEN ioFailures \cup {"read"}
                                    ELSE ioFailures
             ELSE /\ sample' = sample + 1
                  /\ pc' = "vp_sample"
                  /\ UNCHANGED <<progress, ioFailures>>
    /\ UNCHANGED <<envVars, argVars, sideVars, status, ctlVars, current_wipe, device_info,
                   pattern, bytes_written, success, result, issued, passLog,
                   outcome, hwResult, stopPhase, writesAfterStop,
                   mountedAtRequest, systemAtRequest>>

(***************************************************************************)
(* The hardware erase commands                                             *)
(***************************************************************************)
ErasedDisk == [i \in DOMAIN disk |-> 0]

\* _ata_secure_erase: the identify query and the frozen test
AtaIdentify ==
    /\ pc = "ata_identify"
    /\ progress' = [progress EXCEPT !.pass_name = "ATA Secure Erase",
                                    !.current_pass = 1, !.total_passes = 1]
    /\ \E answered \in BOOLEAN :
         IF ~answered
         THEN pc' = "finish" /\ success' = FALSE /\ hwResult' = "timeout"
         ELSE IF ataSec = "frozen"
         THEN pc' = "finish" /\ success' = FALSE /\ hwResult' = "frozen"
         ELSE pc' = "ata_setpass" /\ success' = success /\ hwResult' = hwResult
    /\ UNCHANGED <<envVars, argVars, sideVars, status, ctlVars, current_wipe, device_info,
                   pattern, bytes_written, sample, result, issued, passLog,
                   outcome, stopPhase, writesAfterStop, ioFailures,
                   mountedAtRequest, systemAtRequest>>

\* _ata_secure_erase: the temporary user password is set
AtaSetPass ==
    /\ pc = "ata_setpass"
    /\ issued' = issued \cup {"security_set_pass"}
    /\ \E r \in ToolOutcomes :
         IF r = "ok"
         THEN /\ passwordSet' = TRUE
              /\ pc' = "ata_erase"
              /\ UNCHANGED <<success, hwResult>>
         ELSE /\ passwordSet' = passwordSet
              /\ pc' = "finish"
              /\ success' = FALSE
              /\ hwResult' = r
    /\ UNCHANGED <<devSize, disk, hpa, dco, ataSec, nvme, procMounts, argVars, sideVars,
                   status, ctlVars, current_wipe, progress, device_info, pattern,
                   bytes_written, sample, result, passLog, outcome, stopPhase,
                   writesAfterStop, ioFailures, mountedAtRequest,
                   systemAtRequest>>

\* _ata_secure_erase: the blocking security-erase command.  Both exits of the
\* command that return (zero or non-zero) pass the line that marks the
\* progress complete; a timeout leaves by the except clause before it.
AtaErase ==
    /\ pc = "ata_erase"
    /\ issued' = issued \cup {"security_erase"}
    /\ \E r \in ToolOutcomes :
         /\ hwResult' = r
         /\ success' = (r = "ok")
         /\ progress' = IF r = "timeout" THEN progress
                        ELSE [progress EXCEPT !.bytes_written = progress.total_bytes]
         /\ IF r = "ok"
            THEN disk' = ErasedDisk /\ passwordSet' = FALSE
            ELSE UNCHANGED <<disk, passwordSet>>
    /\ pc' = "finish"
    /\ UNCHANGED <<devSize, hpa, dco, ataSec, nvme, procMounts, argVars, sideVars, status,
                   ctlVars, current_wipe, device_info, pattern, bytes_written,
                   sample, result, passLog, outcome, stopPhase, writesAfterStop,
                   ioFailures, mountedAtRequest, systemAtRequest>>

\* _nvme_secure_erase: the sanitize command
NvmeSanitize ==
    /\ pc = "nvme_sanitize"
    /\ progress' = [progress EXCEPT !.pass_name = "NVMe Secure Erase",
                                    !.current_pass = 1, !.total_passes = 1]
    /\ issued' = issued \cup {"nvme_sanitize"}
    /\ \E r \in ToolOutcomes :
         CASE r = "ok" -> pc' = "nvme_poll" /\ UNCHANGED <<success, hwResult>>
           [] r = "fail" -> pc' = "nvme_format" /\ UNCHANGED <<success, hwResult>>
           [] r = "timeout" ->
                pc' = "finish" /\ success' = FALSE /\ hwResult' = "timeout"
    /\ UNCHANGED <<envVars, argVars, sideVars, status, ctlVars, current_wipe, device_info,
                   pattern, bytes_written, sample, result, passLog, outcome,
                   stopPhase, writesAfterStop, ioFailures,
                   mountedAtRequest, systemAtRequest>>

\* _nvme_secure_erase: one turn of the sanitize-log loop, or its exit when a
\* stop was requested
NvmePoll ==
    /\ pc = "nvme_poll"
    /\ IF stop_requested
       THEN /\ progress' = [progress EXCEPT !.bytes_written = progress.total_bytes]
            /\ success' = TRUE
            /\ hwResult' = "stopped"
            /\ pc' = "finish"
            /\ disk' = disk
       ELSE \E log \in {"completed", "failed", "running", "timeout"} :
              CASE log = "completed" ->
                     /\ progress' = [progress EXCEPT
                                       !.bytes_written = progress.total_bytes]
                     /\ success' = TRUE
                     /\ hwResult' = "ok"
                     /\ disk' = ErasedDisk
                     /\ pc' = "finish"
                [] log = "running" ->
                     /\ pc' = "nvme_poll"
                     /\ progress' = [progress EXCEPT !.elapsed_time = 1 - @]
                     /\ UNCHANGED <<success, hwResult, disk>>
                [] OTHER ->
                     /\ success' = FALSE
                     /\ hwResult' = IF log = "failed" THEN "fail" ELSE "timeout"
                     /\ pc' = "finish"
                     /\ UNCHANGED <<progress, disk>>
    /\ UNCHANGED <<devSize, hpa, dco, ataSec, nvme, procMounts, passwordSet,
                   argVars, sideVars, status, ctlVars, current_wipe, device_info, pattern,
                   bytes_written, sample, result, issued, passLog, outcome,
                   stopPhase, writesAfterStop, ioFailures,
                   mountedAtRequest, systemAtRequest>>

\* _nvme_secure_erase: format with secure erase, when sanitize was refused
NvmeFormat ==
    /\ pc = "nvme_format"
    /\ issued' = issued \cup {"nvme_format"}
    /\ \E r \in ToolOutcomes :
         /\ hwResult' = r
         /\ success' = (r = "ok")
         /\ IF r = "ok"
            THEN /\ progress' = [progress EXCEPT
                                   !.bytes_written = progress.total_bytes]
                 /\ disk' = ErasedDisk
            ELSE UNCHANGED <<progress, disk>>
    /\ pc' = "finish"
    /\ UNCHANGED <<devSize, hpa, dco, ataSec, nvme, procMounts, passwordSet,
                   argVars, sideVars, status, ctlVars, current_wipe, device_info, pattern,
                   bytes_written, sample, result, passLog, outcome, stopPhase,
                   writesAfterStop, ioFailures, mountedAtRequest,
                   systemAtRequest>>

(***************************************************************************)
(* The end of wipe_device                                                  *)
(***************************************************************************)
\* the status wipe_device assigns from the erase result and the stop flag
FinishStatusFailedFirst(ok, stop) ==
    IF ok /\ ~stop THEN "completed"
    ELSE IF ~ok THEN "failed" ELSE "cancelled"
FinishStatus(ok, stop) ==
    IF ok /\ ~stop THEN "completed"
    ELSE IF ~stop THEN "failed" ELSE "cancelled"

Finish ==
    /\ pc = "finish"
    /\ status' = FinishStatus(success, stop_requested)
    /\ outcome' = status'
    /\ result' = IF status' = "completed" THEN "true" ELSE "false"
    /\ progress' = IF status' = "completed"
                   THEN [progress EXCEPT !.pass_name = "Completed"]
                   ELSE progress
    /\ current_wipe' = FALSE
    /\ pc' = "done"
    /\ UNCHANGED <<envVars, argVars, sideVars, ctlVars, device_info, pattern,
                   bytes_written, sample, success, issued, passLog, hwResult,
                   stopPhase, writesAfterStop, ioFailures,
                   mountedAtRequest, systemAtRequest>>

Worker ==
    \/ Validate \/ GetDeviceInfo \/ PrepUnmount \/ PrepHpa \/ PrepDco
    \/ InitProgress \/ MpBegin \/ WpLoop \/ WpPause \/ WpCheck \/ WpWrite
    \/ VpSample \/ AtaIdentify \/ AtaSetPass \/ AtaErase \/ NvmeSanitize
    \/ NvmePoll \/ NvmeFormat \/ Finish


Next ==
    \/ Worker
    \/ RequestStop \/ RequestPause
    \/ ResumeCheck \/ ResumeClearPause \/ ResumeSetStatus

Spec == Init /\ [][Next]_vars

\* the same job with a worker thread that is always scheduled again; the
\* callers of request_stop, request_pause and resume owe nothing
LiveSpec == Spec /\ WF_vars(Worker)

(***************************************************************************)
(* Properties of one wipe_device job                                       *)
(***************************************************************************)
\* C1: within one Clear/Purge job the status changes only along
\* Ready->Running, Running->Paused, Paused->Running and
\* Running/Paused->{Completed, Failed, Cancelled}; a terminal status is
\* never changed again.  (Stated as the claim; resume() breaks it.)
C1_StatusChangesAllowed ==
    [][status' # status =>
         <<status, status'>> \in
            ({<<"ready", "running">>, <<"running", "paused">>,
              <<"paused", "running">>}
             \cup ({"running", "paused"}
                   \X {"completed", "failed", "cancelled"}))]_vars

C3_CompletedOnlyIfDestroyed ==
    outcome = "completed" =>
       \/ hwResult = "ok"
       \/ /\ Len(passLog) = Len(Passes)
          /\ \A i \in 1..Len(passLog) : passLog[i].written >= devSize

C5_ClearOneVerifiedPass ==
    (method = "clear" /\ ~dry_run /\ pc = "done" /\ result # "raised"
       /\ ~stop_requested /\ ioFailures = {}) =>
       /\ Len(passLog) = 1
       /\ passLog[1].name = "Single Random Pass"
       /\ passLog[1].pattern_type = "random"
       /\ progress.verification_status = "passed"
       /\ issued \cap {"security_set_pass", "security_erase",
                       "nvme_sanitize", "nvme_format"} = {}
       /\ outcome = "completed"

\* C6: a Purge job on a drive whose ATA security state is frozen skips the
\* security-erase command and runs the five overwrite passes; with no
\* error and no cancel it is finished Completed.  (Stated as the claim;
\* _ata_secure_erase returns False on a frozen drive and the job fails.)
C6_FrozenFallsBackToPasses ==
    (method = "purge" /\ ~dry_run /\ ataSec = "frozen" /\ pc = "done"
       /\ result # "raised" /\ ~stop_requested /\ ioFailures = {}
       /\ hwResult # "timeout") =>
       /\ "security_erase" \notin issued
       /\ Len(passLog) = 5
       /\ outcome = "completed"

\* C7: when the hardware erase of a Purge job failed or timed out, the
\* overwrite passes were run instead, and the job is finished Failed only
\* if the passes failed too.  (Stated as the claim; wipe_device takes the
\* result of the hardware path as the result of the job.)
C7_HardwareFailureFallsBack ==
    (method = "purge" /\ hwResult \in {"fail", "timeout"} /\ pc = "done"
       /\ ~stop_requested) =>
       /\ (passLog # <<>> \/ "write" \in ioFailures)
       /\ (outcome = "failed" => "write" \in ioFailures)

\* C8, as the claim states it: a write or flush error in a pass makes the
\* job end Failed, with the error in the error list and no later pass.
C8_WriteErrorFails ==
    ("write" \in ioFailures) =>
       /\ progress.errors # <<>>
       /\ Len(passLog) = progress.current_pass - 1
       /\ pc \in {"finish", "done"}
       /\ (pc = "done" => outcome = "failed")

\* C8, amended: a write or flush error in a pass is appended to the error
\* list, ends the pass without a later pass being started, and the job is
\* finished Failed, or Cancelled when a stop request is pending at the end
\* of wipe_device; it is never finished Completed.
C8_WriteErrorFailsOrCancels ==
    ("write" \in ioFailures) =>
       /\ progress.errors # <<>>
       /\ Len(passLog) = progress.current_pass - 1
       /\ pc \in {"finish", "done"}
       /\ (pc = "done" =>
             /\ outcome = (IF stop_requested THEN "cancelled" ELSE "failed")
             /\ result = "false")

\* C8 happens: the second pass of a Purge met a write error and the job
\* was finished Failed
C8_Witness ==
    /\ "write" \in ioFailures
    /\ method = "purge"
    /\ progress.current_pass = 2
    /\ pc = "done"
    /\ outcome = "failed"

\* C9: a failed verification of a pass does not end the pass loop, and a
\* verification status Failed is never replaced by Passed within the job.
\* (Stated as the claim; _multipass_wipe assigns the status after every
\* verified pass.)
C9_FailedVerificationSticks ==
    [][/\ (pc = "vp_sample" /\ pc' # "vp_sample") => pc' = "mp_begin"
       /\ (progress.verification_status = "failed") =>
             (progress'.verification_status # "passed")]_vars

\* C10: a Clear/Purge request for a target that is mounted, or that holds
\* the running system, is refused before anything is done to the device:
\* no command or write is issued and the status stays Ready.  (Stated as
\* the claim; _check_mounted looks for the device path in /proc/mounts.)
C10_BusyTargetRefused ==
    ((mountedAtRequest \/ systemAtRequest) /\ method # "destroy" /\ ~dry_run) =>
       /\ issued = {}
       /\ status = "ready"
       /\ current_wipe = FALSE

(***************************************************************************)
(* Several wipe_device calls on one engine and one device                  *)
(*                                                                         *)
(* Each thread in Calls runs wipe_device of the same WipingEngine against  *)
(* the same device: a plain disk of SmallDevSize bytes with nothing        *)
(* mounted.  The calls share the engine fields status, stop_requested,     *)
(* pause_requested and current_wipe; calls[c] holds the locals of call c.  *)
(* A step of a call is the code between two places where another thread's  *)
(* assignment to a shared field can be observed.                           *)
(***************************************************************************)
\* engineVars without the fields the calls share
parkedVars == <<envVars, argVars, progress, workVars, rpc, histVars, scanVars,
               guiVars, auxVars>>

\* positions of a call between  self.status = RUNNING  and the final status
ActivePcs == {"mp_begin", "write", "finish"}


\* the job of the single-job specification is never started here
CallsInit ==
    /\ EngineParked
    /\ machine = NoMachine
    /\ scan = NoScan
    /\ gui = NoGui
    /\ AuxParked
    /\ \E args \in [Calls -> [method : Methods, dry_run : BOOLEAN]] :
         calls = [c \in Calls |->
                    [NoCall EXCEPT !.method = args[c].method,
                                   !.dry_run = args[c].dry_run]]

CallReturn(c, value) ==
    calls' = [calls EXCEPT ![c].pc = "done", ![c].result = value]

\* entry of wipe_device: the DESTROY shortcut and the existence/permission
\* tests.  No test looks at self.current_wipe or self.status.
CallValidate(c) ==
    /\ calls[c].pc = "idle"
    /\ LET busy == \E d \in Calls \ {c} : calls[d].pc \in ActivePcs
       IN  IF calls[c].method = "destroy"
           THEN calls' = [calls EXCEPT ![c].pc = "done", ![c].result = "true",
                                       ![c].busyAtEntry = busy]
           ELSE \E accessible \in BOOLEAN :
                  calls' = [calls EXCEPT
                              ![c].pc = IF accessible THEN "info" ELSE "done",
                              ![c].result = IF accessible THEN "none" ELSE "raised",
                              ![c].busyAtEntry = busy]
    /\ UNCHANGED <<parkedVars, status, flagVars, current_wipe>>

\* get_device_info, the dry-run return, the mounted test and prepare_device
\* (which finds nothing to unmount or remove on this device)
CallGetDeviceInfo(c) ==
    /\ calls[c].pc = "info"
    /\ \E opened \in BOOLEAN, readable \in BOOLEAN :
         IF ~opened THEN CallReturn(c, "raised")
         ELSE IF calls[c].dry_run THEN CallReturn(c, "true")
         ELSE IF CheckMounted(readable) THEN CallReturn(c, "raised")
         ELSE calls' = [calls EXCEPT ![c].pc = "init"]
    /\ UNCHANGED <<parkedVars, status, flagVars, current_wipe>>

\* self.current_wipe = progress; self.status = RUNNING
CallInitProgress(c) ==
    /\ calls[c].pc = "init"
    /\ current_wipe' = TRUE
    /\ status' = "running"
    /\ calls' = [calls EXCEPT ![c].pc = ErasePath(calls[c].method, NoInfo),
                              ![c].current_pass = 0,
                              ![c].bytes_written = 0]
    /\ UNCHANGED <<parkedVars, flagVars>>

\* the loop head of _multipass_wipe and the open() of _write_pattern
CallMpBegin(c) ==
    /\ calls[c].pc = "mp_begin"
    /\ IF calls[c].current_pass = Len(WipePatterns(calls[c].method))
       THEN calls' = [calls EXCEPT ![c].pc = "finish", ![c].success = TRUE]
       ELSE IF stop_requested
       THEN calls' = [calls EXCEPT ![c].pc = "finish", ![c].success = FALSE]
       ELSE \E opened \in BOOLEAN :
              calls' = [calls EXCEPT
                          ![c].current_pass = @ + 1,
                          ![c].bytes_written = 0,
                          ![c].pc = IF opened THEN "write" ELSE "finish",
                          ![c].success = IF opened THEN @ ELSE FALSE]
    /\ UNCHANGED <<parkedVars, status, flagVars, current_wipe>>

\* one turn of the write loop of _write_pattern, or its exit; the pass is
\* then verified, which reads the device only
CallWrite(c) ==
    /\ calls[c].pc = "write"
    /\ IF calls[c].bytes_written < SmallDevSize /\ ~stop_requested
       THEN IF PauseHolds
            THEN status' = "paused" /\ calls' = calls
            ELSE \E written \in BOOLEAN :
                   /\ status' = "running"
                   /\ calls' = [calls EXCEPT
                        ![c].bytes_written =
                            IF written
                            THEN @ + ChunkSize([i \in 1..PatternLen |-> 0],
                                               SmallDevSize, @)
                            ELSE @,
                        ![c].writes = IF written THEN 1 ELSE @,
                        ![c].pc = IF written THEN "write" ELSE "finish",
                        ![c].success = IF written THEN @ ELSE FALSE]
       ELSE /\ status' = status
            /\ calls' = [calls EXCEPT
                 ![c].pc = IF WriteLoopResult(calls[c].bytes_written, SmallDevSize)
                           THEN "mp_begin" ELSE "finish",
                 ![c].success = IF WriteLoopResult(calls[c].bytes_written,
                                                   SmallDevSize)
                                THEN @ ELSE FALSE]
    /\ UNCHANGED <<parkedVars, flagVars, current_wipe>>

\* the final status, the return value and  self.current_wipe = None
CallFinish(c) ==
    /\ calls[c].pc = "finish"
    /\ status' = FinishStatus(calls[c].success, stop_requested)
    /\ current_wipe' = FALSE
    /\ CallReturn(c, IF status' = "completed" THEN "true" ELSE "false")
    /\ UNCHANGED <<parkedVars, flagVars>>

\* request_stop from any thread
CallsRequestStop ==
    /\ \E c \in Calls : calls[c].pc # "done"
    /\ stop_requested' = TRUE
    /\ UNCHANGED <<parkedVars, callVars, status, pause_requested, current_wipe>>

CallsNext ==
    \/ \E c \in Calls :
         \/ CallValidate(c) \/ CallGetDeviceInfo(c) \/ CallInitProgress(c)
         \/ CallMpBegin(c) \/ CallWrite(c) \/ CallFinish(c)
    \/ CallsRequestStop

CallsSpec == CallsInit /\ [][CallsNext]_vars

\* C11: a wipe_device call that starts while another job on the device is
\* between Running and its terminal status is refused: it never becomes a
\* job and never writes.  (Stated as the claim; wipe_device has no test of
\* an active job.)
C11_SecondJobRefused ==
    \A c \in Calls :
       (calls[c].busyAtEntry /\ calls[c].method # "destroy" /\ ~calls[c].dry_run) =>
          /\ calls[c].writes = 0
          /\ calls[c].pc \notin ActivePcs
          /\ calls[c].result \in {"none", "raised"}

\* C33: a wipe_device call that starts after another call on the same
\* engine was finished Cancelled starts with no stop request pending.
\* (Stated as the claim; nothing in wipe_device clears stop_requested.)
C33_NoStopCarriedOver ==
    [][\A c \in Calls : \A d \in Calls \ {c} :
          (/\ calls[d].pc = "done" /\ calls[d].result = "false"
           /\ status = "cancelled"
           /\ calls[c].pc = "idle" /\ calls'[c].pc # "idle") =>
             ~stop_requested']_vars

(***************************************************************************)
(* Further properties of one wipe_device job                               *)
(***************************************************************************)
\* C12: in a Purge job no pass is written and no hardware erase command is
\* sent while an HPA or DCO that prepare_device detected (and tried to
\* remove) is still present.  (Stated as the claim; prepare_device only
\* warns when the removal fails.)
C12_HpaDcoClearedBeforeErase ==
    (method = "purge"
       /\ issued \cap {"write", "security_set_pass", "security_erase",
                       "nvme_sanitize", "nvme_format"} # {}) =>
       /\ ~("hpa_reset" \in issued /\ hpa)
       /\ ~("dco_restore" \in issued /\ dco)

\* C13: when the unmount issued by prepare_device left a filesystem of the
\* target mounted, the job is aborted: nothing is written or erased and the
\* job is not finished Completed.  (Stated as the claim; _unmount_device
\* ignores the result of every umount.)
C13_FailedUnmountAborts ==
    ("umount" \in issued /\ TargetMounted) =>
       /\ issued \cap {"write", "security_set_pass", "security_erase",
                       "nvme_sanitize", "nvme_format"} = {}
       /\ outcome # "completed"

\* C17: for method Destroy wipe_device does nothing to the device (it is not
\* opened or probed, nothing is unmounted, no HPA/DCO change, no erase
\* command, no write), leaves the engine status as it was, and returns True.
C17_DestroyDoesNothing ==
    method = "destroy" =>
       /\ pc \in {"idle", "done"}
       /\ pc = "done" => result = "true"
       /\ device_info = NoInfo
       /\ issued = {}
       /\ \A i \in DOMAIN disk : disk[i] \in DataBytes
       /\ status = "ready"
       /\ current_wipe = FALSE
       /\ progress = NoProgress

\* a Destroy call has returned
C17_Witness == method = "destroy" /\ pc = "done" /\ result = "true"

\* C18 as claimed: with dry_run wipe_device issues no unmount, no HPA/DCO
\* removal, no hardware erase and no write, leaves the device contents and
\* the engine's job status unchanged, and returns True.
C18_DryRunReturnsTrue ==
    dry_run =>
       /\ issued = {}
       /\ \A i \in DOMAIN disk : disk[i] \in DataBytes
       /\ status = "ready" /\ current_wipe = FALSE /\ progress = NoProgress
       /\ pc = "done" => result = "true"

\* C18 amended: with dry_run wipe_device issues nothing, leaves the device
\* contents and the engine's job status unchanged, and returns True, unless
\* the device is missing, inaccessible or cannot be opened: then it raises,
\* before any device information was gathered.
C18_DryRunReturnsTrueOrRaises ==
    dry_run =>
       /\ issued = {}
       /\ \A i \in DOMAIN disk : disk[i] \in DataBytes
       /\ status = "ready" /\ current_wipe = FALSE /\ progress = NoProgress
       /\ pc \in {"idle", "info", "done"}
       /\ pc = "done" =>
             \/ result = "true"
             \/ result = "raised" /\ device_info = NoInfo /\ method # "destroy"
       /\ device_info # NoInfo => (pc = "done" /\ result = "true")

\* a dry run of a Purge on a mounted target has shown the plan and returned
C18_Witness ==
    /\ dry_run /\ method = "purge" /\ TargetMounted
    /\ pc = "done" /\ result = "true"
    /\ device_info.is_mounted

\* C20: bytes_written of the job's progress (and the counter of the write
\* loop) never exceeds total_bytes, is 0 after every step that starts a
\* pass, and does not decrease in a step that stays within the pass.
C20_BytesWrittenWithinPass ==
    /\ [](progress.bytes_written <= progress.total_bytes
            /\ bytes_written <= progress.total_bytes)
    /\ [][/\ (pc = "mp_begin" /\ pc' = "wp_loop") =>
                (progress'.bytes_written = 0 /\ bytes_written' = 0)
          /\ progress'.current_pass # progress.current_pass =>
                progress'.bytes_written = 0
          /\ progress'.current_pass = progress.current_pass =>
                progress'.bytes_written >= progress.bytes_written]_vars

\* the second pass of a Purge is under way: the counter, which stood at
\* total_bytes when the first pass ended, has been reset and has grown again
C20_Witness ==
    /\ method = "purge"
    /\ progress.current_pass = 2
    /\ pc = "wp_loop"
    /\ 0 < progress.bytes_written
    /\ progress.bytes_written < progress.total_bytes
    /\ Len(passLog) = 1

\* C21: the pause request is looked at between buffer writes only.  While
\* the worker is in the pause loop and the request stands (no resume has
\* cleared it, no stop was requested), no step changes a byte of the device
\* or bytes_written, and the worker stays in the loop; and whenever the
\* worker is at the pause test, every chunk begun so far is on the device in
\* full (the bytes below bytes_written hold the pattern) and the counter of
\* the progress record agrees with the loop's.
C21_PauseBetweenWrites ==
    /\ [](pc = "wp_pause" =>
            /\ progress.bytes_written = bytes_written
            /\ \A i \in 0..(bytes_written - 1) :
                  disk[i] = pattern[(i % Len(pattern)) + 1])
    /\ [][(pc = "wp_pause" /\ pause_requested /\ ~stop_requested) =>
            /\ disk' = disk
            /\ bytes_written' = bytes_written
            /\ progress'.bytes_written = progress.bytes_written
            /\ (pc' = "wp_pause" \/ ~pause_requested' \/ stop_requested')]_vars

\* the worker sits in the pause loop after it has written a chunk
C21_Witness ==
    /\ pc = "wp_pause" /\ status = "paused"
    /\ pause_requested /\ ~stop_requested
    /\ 0 < bytes_written /\ bytes_written < progress.total_bytes

\* C23: within one job each mutating hardware operation is issued at most
\* once: after an HPA reset, a DCO restore, an ATA security erase, an NVMe
\* sanitize or an NVMe format was issued, whether it succeeded, failed or
\* timed out, the job is never again at the statement that issues it.
C23_MutatingOpsIssuedOnce ==
    /\ "hpa_reset" \in issued => pc # "prep_hpa"
    /\ "dco_restore" \in issued => pc # "prep_dco"
    /\ "security_erase" \in issued => pc # "ata_erase"
    /\ "nvme_sanitize" \in issued => pc # "nvme_sanitize"
    /\ "nvme_format" \in issued => pc # "nvme_format"

\* a Purge has ended after its DCO restore failed and its security erase
\* timed out
C23_Witness ==
    /\ pc = "done"
    /\ "dco_restore" \in issued /\ dco
    /\ "security_erase" \in issued /\ hwResult = "timeout"

\* C26: no two buffer writes of one Random pass use the same generated
\* buffer.  A buffer is generated where the pass begins and nowhere else,
\* so the job may stand before a write of a Random pass only when that pass
\* has written nothing yet.  (Stated as the claim; _write_pattern writes
\* the one buffer of the pass over and over.)
C26_RandomBufferFresh ==
    (pc = "wp_write" /\ PassInfo.pattern_type = "random") => bytes_written = 0

\* C27: the NVMe path always ends: once the job is at the sanitize command
\* it reaches the end of wipe_device, whatever the sanitize log reports and
\* also when it never reports completed or failed.  (Stated as the claim;
\* the sanitize-log loop has no bound of its own.)
C27_NvmePathTerminates == (pc = "nvme_sanitize") ~> (pc = "done")

\* C28: the progress record shows bytes_written = total_bytes only when the
\* work was done: on a hardware path only after the erase command or the
\* sanitize succeeded (not after it failed, timed out or was cancelled by a
\* stop), on the overwrite path only when the pattern of the pass is on
\* every byte up to total_bytes.  (Stated as the claim; the ATA path marks
\* the progress complete before it looks at the exit code, the NVMe loop
\* after it was left by a stop.)
C28_ProgressTruthful ==
    (progress.total_bytes > 0 /\ progress.bytes_written = progress.total_bytes) =>
       IF ErasePath(method, device_info) # "mp_begin"
       THEN hwResult = "ok"
       ELSE Covered(disk, pattern, progress.total_bytes)

\* C34: when the sampling of a verify-enabled pass ends, the write of the
\* pass having returned True, no read having failed, no stop request pending
\* and the device being at least one buffer long, the verification status is
\* Passed.  (Stated as the claim; the sample offsets of _verify_pattern are
\* not multiples of the buffer length.)
C34_SampledVerificationPasses ==
    [][(/\ pc = "vp_sample" /\ pc' = "mp_begin"
        /\ ~stop_requested /\ ioFailures' = {}
        /\ progress.total_bytes >= Len(pattern)) =>
          progress'.verification_status = "passed"]_vars

\* C35: in a job on the overwrite path whose prepare step removed the HPA,
\* the total_bytes of the passes is the size of the device as it is after
\* the removal, and every pass that wrote total_bytes wrote that size.
\* (Stated as the claim; total_bytes is the size read by get_device_info
\* before prepare_device.)
C35_PassesUseSizeAfterPrepare ==
    (/\ ErasePath(method, device_info) = "mp_begin"
     /\ "hpa_reset" \in issued /\ ~hpa /\ Len(passLog) > 0) =>
       /\ progress.total_bytes = devSize
       /\ \A i \in 1..Len(passLog) :
             passLog[i].written = progress.total_bytes =>
               passLog[i].written = devSize

\* C36: when the sampling of a pass ends with the verification status
\* Failed, the window of the sample differs from the expected pattern or a
\* read has failed.  (Stated as the claim; _verify_pattern returns False
\* on a stop request and _multipass_wipe stores Failed.)
C36_FailedOnlyOnMismatch ==
    [][(/\ pc = "vp_sample" /\ pc' = "mp_begin"
        /\ progress'.verification_status = "failed") =>
          \/ "read" \in ioFailures'
          \/ ReadAt(disk, devSize,
                    SampleOffset(progress.total_bytes, pattern, sample),
                    Len(pattern)) # pattern]_vars

\* C37: a job whose security-erase command failed or timed out after the
\* temporary user password was set does not end with the password still set
\* on the drive.  (Stated as the claim; no exit of _ata_secure_erase
\* disables the password.)
C37_NoPasswordLeftAfterFailure ==
    (/\ pc = "done" /\ "security_erase" \in issued
     /\ hwResult \in {"fail", "timeout"}) => ~passwordSet

\* C32: while a pass is being written and a pause request is pending, a
\* call of resume() clears the request, whether or not the worker has set
\* the status to Paused yet, so that no pause request is left pending after
\* a resume.  (Stated as the claim; resume() acts only when the status is
\* already Paused.)
C32_ResumeClearsPendingPause ==
    (/\ pc \in {"wp_loop", "wp_pause", "wp_check", "wp_write"}
     /\ pause_requested /\ ~stop_requested /\ rpc = "idle") => ResumeTest

(***************************************************************************)
(* Device detection (src/new_ver/new_claude_ver/device-detection.py)       *)
(*                                                                         *)
(* Names and size strings are sequences of one-character strings, so that  *)
(* the regular expressions, substring tests and the size parser work on    *)
(* the text as the code does.  The factor 1024 is scaled down (Kilo).      *)
(***************************************************************************)
\* 1024 in the source, scaled
Kilo == 2

Digits == {"0", "1", "2", "3", "4", "5", "6", "7", "8", "9"}
\* the letters of the model's texts, small and capital
LowerLetters == <<"a", "b", "c", "d", "e", "g", "h", "i", "k", "l", "m", "n",
                  "o", "p", "q", "r", "s", "t", "v">>
UpperLetters == <<"A", "B", "C", "D", "E", "G", "H", "I", "K", "L", "M", "N",
                  "O", "P", "Q", "R", "S", "T", "V">>
LowerCase == {LowerLetters[i] : i \in 1..Len(LowerLetters)}

DigitValue(ch) ==
    CASE ch = "0" -> 0 [] ch = "1" -> 1 [] ch = "2" -> 2 [] ch = "3" -> 3
      [] ch = "4" -> 4 [] ch = "5" -> 5 [] ch = "6" -> 6 [] ch = "7" -> 7
      [] ch = "8" -> 8 [] ch = "9" -> 9

\* str.upper()
UpperChar(ch) ==
    IF ch \in LowerCase
    THEN UpperLetters[CHOOSE i \in 1..Len(LowerLetters) : LowerLetters[i] = ch]
    ELSE ch
Upper(str) == [i \in 1..Len(str) |-> UpperChar(str[i])]

\* str.strip()
RECURSIVE Strip(_)
Strip(str) ==
    IF str = <<>> THEN str
    ELSE IF Head(str) = " " THEN Strip(Tail(str))
    ELSE IF str[Len(str)] = " " THEN Strip(SubSeq(str, 1, Len(str) - 1))
    ELSE str

\* the length of the longest prefix of  str  made of characters in  set
RECURSIVE PrefixLen(_, _)
PrefixLen(str, set) ==
    IF str = <<>> \/ Head(str) \notin set THEN 0
    ELSE 1 + PrefixLen(Tail(str), set)

Power(base, n) == IF n = 0 THEN 1 ELSE
                  IF n = 1 THEN base ELSE
                  IF n = 2 THEN base * base ELSE
                  IF n = 3 THEN base * base * base ELSE
                  IF n = 4 THEN base * base * base * base
                  ELSE base * base * base * base * base

\* the multipliers table of _parse_size, and  multipliers.get(unit, 1)
Multiplier(unit) ==
    CASE unit = <<"B">> -> 1
      [] unit \in {<<"K">>, <<"K", "B">>, <<"K", "I", "B">>} -> Power(Kilo, 1)
      [] unit \in {<<"M">>, <<"M", "B">>, <<"M", "I", "B">>} -> Power(Kilo, 2)
      [] unit \in {<<"G">>, <<"G", "B">>, <<"G", "I", "B">>} -> Power(Kilo, 3)
      [] unit \in {<<"T">>, <<"T", "B">>, <<"T", "I", "B">>} -> Power(Kilo, 4)
      [] unit \in {<<"P">>, <<"P", "B">>, <<"P", "I", "B">>} -> Power(Kilo, 5)
      [] OTHER -> 1

\* the digits of a number string read as one integer, the dot left out
RECURSIVE DigitsValue(_)
DigitsValue(str) ==
    IF str = <<>> THEN 0
    ELSE IF str[Len(str)] = "."
    THEN DigitsValue(SubSeq(str, 1, Len(str) - 1))
    ELSE DigitsValue(SubSeq(str, 1, Len(str) - 1)) * 10 + DigitValue(str[Len(str)])

\* _parse_size.  None, "" and "0" give 0; otherwise the text is upper-cased
\* and stripped, re.match takes the leading run of digits and dots, skips
\* blanks and takes the following run of capital letters; float() raises
\* ValueError unless the run holds one dot at most and a digit; the result
\* is int(number * multiplier).
ParseSize(size_str) ==
    IF size_str = <<>> \/ size_str = <<"0">> THEN 0
    ELSE LET str == Strip(Upper(size_str))
             n == PrefixLen(str, Digits \cup {"."})
             number_str == SubSeq(str, 1, n)
             rest == SubSeq(str, n + 1, Len(str))
             blanks == PrefixLen(rest, {" "})
             letters == SubSeq(rest, blanks + 1, Len(rest))
             unit == SubSeq(letters, 1,
                            PrefixLen(letters, {UpperLetters[i] :
                                                  i \in 1..Len(UpperLetters)}))
             dots == {i \in 1..n : number_str[i] = "."}
             decimals == IF dots = {} THEN 0
                         ELSE n - (CHOOSE i \in dots : TRUE)
         IN  IF n = 0 \/ Cardinality(dots) > 1 \/ Cardinality(dots) = n
             THEN 0
             ELSE (DigitsValue(number_str) * Multiplier(unit))
                     \div Power(10, decimals)

\* ---- the block devices of a machine, as lsblk -J and /proc/partitions
\* ---- list them
\* name, type, size, mountpoint and children are lsblk's fields; strings
\* tells whether model, serial, vendor and rev are strings or null;
\* children holds the mount points of the partitions ("" when not mounted);
\* blocks is the size column of /proc/partitions
BlockDevice(name, type, size, strings, mountpoint, children, blocks) ==
    [name |-> name, type |-> type, size |-> size, strings |-> strings,
     mountpoint |-> mountpoint, children |-> children, blocks |-> blocks]

\* the block devices a machine of the model may have, by what they are
Catalog ==
    [SystemDisk |->
        BlockDevice(<<"s", "d", "a">>, "disk", <<"3", "G">>, TRUE, "", {"/", ""}, 12),
     DataDisk |->
        BlockDevice(<<"s", "d", "b">>, "disk", <<"2", "g">>, TRUE, "", {"/data"}, 8),
     TinyDisk |->
        BlockDevice(<<"s", "d", "c">>, "disk", <<"1", "K">>, TRUE, "", {}, 1),
     BlankNvme |->
        BlockDevice(<<"n", "v", "m", "e", "0", "n", "1">>, "disk", <<"1", ".", "5", "G">>, FALSE, "", {}, 6),
     RootCard |->
        BlockDevice(<<"m", "m", "c", "b", "l", "k", "0">>, "disk", <<"1", "M">>, TRUE, "/", {}, 2),
     LoopDevice |->
        BlockDevice(<<"l", "o", "o", "p", "0">>, "loop", <<"3", "G">>, TRUE, "/snap", {}, 12),
     RamDisk |->
        BlockDevice(<<"r", "a", "m", "0">>, "disk", <<"3", "M">>, TRUE, "", {}, 6),
     OpticalDrive |->
        BlockDevice(<<"s", "r", "0">>, "rom", <<"1", "G">>, TRUE, "", {}, 4),
     MapperVolume |->
        BlockDevice(<<"d", "m", "-", "0">>, "lvm", <<"2", "G">>, TRUE, "/home", {}, 8)]

\* how many block devices a machine of the model has at most
MaxDevices == 2

Machines ==
    [devices : {ds \in SUBSET {Catalog[k] : k \in DOMAIN Catalog} :
                   Cardinality(ds) <= MaxDevices},
     lsblk : {"ok", "fail", "malformed"},
     proc_readable : BOOLEAN]

\* the record detection builds for a device; the entries that the
\* enrichment steps fill in are left out
DeviceInfo(name, size_bytes, mount_points) ==
    [name |-> name, size_bytes |-> size_bytes, mount_points |-> mount_points,
     wipe_status |-> "Ready"]

\* _get_mount_points: the device's own mount point and those of its children
GetMountPoints(device) ==
    {mp \in {device.mountpoint} \cup device.children : mp # ""}

\* _parse_lsblk_device: None when a text field is null (.strip() raises)
ParsesLsblkDevice(device) == device.strings
ParseLsblkDevice(device) ==
    DeviceInfo(device.name, ParseSize(device.size), GetMountPoints(device))

AllDigits(str) == str # <<>> /\ \A i \in 1..Len(str) : str[i] \in Digits
StartsWith(prefix, str) ==
    Len(str) >= Len(prefix) /\ SubSeq(str, 1, Len(prefix)) = prefix

\* re.match(r'^<prefix>\d+<sep>\d+$', name)
MatchesNumbered(prefix, sep, name) ==
    /\ StartsWith(prefix, name)
    /\ \E k \in (Len(prefix) + 1)..Len(name) :
         /\ AllDigits(SubSeq(name, Len(prefix) + 1, k))
         /\ StartsWith(sep, SubSeq(name, k + 1, Len(name)))
         /\ AllDigits(SubSeq(name, k + Len(sep) + 1, Len(name)))
\* re.match(r'^<prefix>[a-z]$', name)
MatchesLettered(prefix, name) ==
    /\ StartsWith(prefix, name)
    /\ Len(name) = Len(prefix) + 1
    /\ name[Len(name)] \in LowerCase

\* _is_whole_disk
IsWholeDisk(name) ==
    IF StartsWith(<<"s", "d">>, name) /\ Len(name) >= 4
          /\ name[3] \in LowerCase /\ AllDigits(SubSeq(name, 4, Len(name)))
    THEN FALSE
    ELSE IF \E k \in 1..Len(name) :
               /\ MatchesNumbered(<<"n", "v", "m", "e">>, <<"n">>, SubSeq(name, 1, k))
               /\ StartsWith(<<"p">>, SubSeq(name, k + 1, Len(name)))
               /\ AllDigits(SubSeq(name, k + 2, Len(name)))
    THEN FALSE
    ELSE IF MatchesNumbered(<<"m", "m", "c", "b", "l", "k">>, <<"p">>, name)
    THEN FALSE
    ELSE \/ MatchesLettered(<<"s", "d">>, name)
         \/ MatchesNumbered(<<"n", "v", "m", "e">>, <<"n">>, name)
         \/ (StartsWith(<<"m", "m", "c", "b", "l", "k">>, name)
               /\ AllDigits(SubSeq(name, 7, Len(name))))
         \/ MatchesLettered(<<"h", "d">>, name)

\* the name of the first partition of a disk
PartitionName(name) ==
    IF StartsWith(<<"s", "d">>, name) THEN name \o <<"1">>
    ELSE name \o <<"p", "1">>

\* the lines of /proc/partitions after the header: name and 1K blocks, for
\* every block device and for the first partition of a partitioned one
ProcPartitions(m) ==
    {[name |-> d.name, blocks |-> d.blocks] : d \in m.devices}
    \cup {[name |-> PartitionName(d.name), blocks |-> d.blocks - 1] :
            d \in {x \in m.devices : x.children # {}}}

\* detect_block_devices_proc with _get_device_details: whole disks by name,
\* size from the block count, no mount points
DetectBlockDevicesProc(m) ==
    IF ~m.proc_readable THEN {}
    ELSE {DeviceInfo(line.name, line.blocks * Kilo, {}) :
            line \in {l \in ProcPartitions(m) : IsWholeDisk(l.name)}}

\* detect_block_devices_json: the entries of type disk that parse, or the
\* fallback when lsblk fails or its output is no JSON
DetectBlockDevicesJson(m) ==
    IF m.lsblk = "ok"
    THEN {ParseLsblkDevice(d) :
            d \in {x \in m.devices : x.type = "disk" /\ ParsesLsblkDevice(x)}}
    ELSE DetectBlockDevicesProc(m)

\* the skip list of detect_all_devices
SkipNames == {<<"l", "o", "o", "p">>, <<"r", "a", "m">>, <<"d", "m", "-">>,
              <<"s", "r">>}

\* a filter loop without the name test
FilterDevicesBySizeOnly(devices) ==
    {[d EXCEPT !.wipe_status = IF "/" \in d.mount_points
                               THEN "Protected (Root FS)" ELSE @] :
       d \in {x \in devices : ~(x.size_bytes < Kilo * Kilo)}}

\* the filter loop of detect_all_devices
FilterDevices(devices) ==
    {[d EXCEPT !.wipe_status = IF "/" \in d.mount_points
                               THEN "Protected (Root FS)" ELSE @] :
       d \in {x \in devices :
                /\ ~(x.size_bytes < Kilo * Kilo)
                /\ ~\E skip \in SkipNames : IsSubstring(skip, x.name)}}

\* ---- detect_all_devices on a machine
ScanInit ==
    /\ EngineParked
    /\ calls = [c \in Calls |-> NoCall]
    /\ machine \in Machines
    /\ scan = [NoScan EXCEPT !.pc = "json"]
    /\ gui = NoGui
    /\ AuxParked

\* devices = self.detect_block_devices_json()
ScanDetectJson ==
    /\ scan.pc = "json"
    /\ scan' = [scan EXCEPT !.pc = "filter",
                            !.devices = DetectBlockDevicesJson(machine)]
    /\ UNCHANGED <<engineVars, callVars, machine, guiVars, auxVars>>

\* the second fallback ( if not devices ) and the filter loop
ScanFilter ==
    /\ scan.pc = "filter"
    /\ LET devices == IF scan.devices = {} THEN DetectBlockDevicesProc(machine)
                      ELSE scan.devices
       IN  scan' = [scan EXCEPT !.pc = "done", !.devices = devices,
                                !.result = FilterDevices(devices)]
    /\ UNCHANGED <<engineVars, callVars, machine, guiVars, auxVars>>

ScanNext == ScanDetectJson \/ ScanFilter

ScanSpec == ScanInit /\ [][ScanNext]_vars

\* C14: every device detect_all_devices returns whose disk or one of whose
\* partitions is mounted at "/" has an eligibility other than Ready,
\* whichever enumeration source listed it.  (Stated as the claim; the
\* /proc/partitions source yields no mount points.)
C14_RootDeviceProtected ==
    scan.pc = "done" =>
       \A r \in scan.result : \A d \in machine.devices :
          (d.name = r.name /\ (d.mountpoint = "/" \/ "/" \in d.children)) =>
             r.wipe_status = "Protected (Root FS)"

\* C16: every device detect_all_devices returns has size_bytes of at least
\* 1 MiB (Kilo * Kilo) and is no loopback, RAM, device-mapper or optical
\* entry of the machine, whether lsblk or /proc/partitions listed it.
C16_ReturnedDevicesFiltered ==
    scan.pc = "done" =>
       \A r \in scan.result :
          /\ r.size_bytes >= Kilo * Kilo
          /\ \A d \in machine.devices :
                d.name = r.name =>
                   d \notin {Catalog.LoopDevice, Catalog.RamDisk,
                              Catalog.MapperVolume, Catalog.OpticalDrive}

\* a scan through lsblk of a machine with a RAM disk and a data disk has
\* returned the data disk alone
C16_Witness ==
    /\ scan.pc = "done"
    /\ machine.lsblk = "ok"
    /\ machine.devices = {Catalog.RamDisk, Catalog.DataDisk}
    /\ {r.name : r \in scan.result} = {<<"s", "d", "b">>}

\* C24: a listing field that is missing costs a device its defaults only:
\* when lsblk answers, every disk of the machine that passes the size and
\* name filter is in the result of the scan, also a disk whose model,
\* serial, vendor and revision are not listed.  (Stated as the claim;
\* _parse_lsblk_device gives up the whole device when such a field is null.)
C24_MissingFieldKeepsDevice ==
    (scan.pc = "done" /\ machine.lsblk = "ok") =>
       \A d \in machine.devices :
          (/\ d.type = "disk"
           /\ ParseSize(d.size) >= Kilo * Kilo
           /\ ~\E skip \in SkipNames : IsSubstring(skip, d.name)) =>
             \E r \in scan.result : r.name = d.name

(***************************************************************************)
(* The main window (olitrator-gui.py): the device list, the check boxes,   *)
(* the selection and the wipe thread, on a machine whose block devices do  *)
(* not change.  Lists are kept as sets: their order plays no part.  One    *)
(* detection thread runs at a time.                                        *)
(***************************************************************************)

\* detect_all_devices as one call
DetectAllDevices(m) ==
    LET json == DetectBlockDevicesJson(m)
        devices == IF json = {} THEN DetectBlockDevicesProc(m) ELSE json
    IN  FilterDevices(devices)

\* update_selection: the checked devices whose wipe_status is Ready
UpdateSelection(device_checkboxes, checked) ==
    {d \in device_checkboxes : d.name \in checked /\ d.wipe_status = "Ready"}

\* the window after __init__: the first refresh_devices has started its thread
GuiInit ==
    /\ EngineParked
    /\ calls = [c \in Calls |-> NoCall]
    /\ machine \in Machines
    /\ scan = NoScan
    /\ gui = [NoGui EXCEPT !.pc = "detecting"]
    /\ AuxParked

\* refresh_devices: the device widgets are destroyed, a detection thread starts
GuiRefreshDevices ==
    /\ gui.pc = "idle"
    /\ gui' = [gui EXCEPT !.pc = "detecting", !.widgets = FALSE]
    /\ UNCHANGED <<engineVars, callVars, scanVars, auxVars>>

\* the detection thread: self.devices = self.detector.detect_all_devices()
GuiDetectDevices ==
    /\ gui.pc = "detecting"
    /\ gui' = [gui EXCEPT !.pc = "populate",
                          !.devices = DetectAllDevices(machine)]
    /\ UNCHANGED <<engineVars, callVars, scanVars, auxVars>>

\* populate_device_list: returns early when nothing was detected, otherwise
\* builds fresh unchecked boxes and calls update_selection
GuiPopulateDeviceList ==
    /\ gui.pc = "populate"
    /\ gui' = IF gui.devices = {}
              THEN [gui EXCEPT !.pc = "idle"]
              ELSE [gui EXCEPT !.pc = "idle", !.widgets = TRUE,
                               !.device_checkboxes = gui.devices,
                               !.checked = {},
                               !.selected_devices =
                                   UpdateSelection(gui.devices, {})]
    /\ UNCHANGED <<engineVars, callVars, scanVars, auxVars>>

\* a click on the check box of a device (create_device_widget disables the
\* box unless wipe_status is Ready); its command is update_selection
GuiToggleDevice(d) ==
    /\ gui.widgets
    /\ d \in gui.device_checkboxes
    /\ d.wipe_status = "Ready"
    /\ LET checked == IF d.name \in gui.checked THEN gui.checked \ {d.name}
                      ELSE gui.checked \cup {d.name}
       IN  gui' = [gui EXCEPT !.checked = checked,
                              !.selected_devices =
                                  UpdateSelection(gui.device_checkboxes, checked)]
    /\ UNCHANGED <<engineVars, callVars, scanVars, auxVars>>

\* start_wipe: nothing without a selection; the confirmation dialog is
\* accepted or dismissed; perform_wipe opens the progress dialog (modal,
\* never destroyed) and starts the thread over selected_devices
GuiStartWipe(confirmed) ==
    /\ gui.pc \in {"idle", "detecting", "populate"}
    /\ gui.dialog = "none"
    /\ gui.selected_devices # {}
    /\ gui' = IF confirmed
              THEN [gui EXCEPT !.queue = gui.selected_devices, !.dialog = "open"]
              ELSE gui
    /\ UNCHANGED <<engineVars, callVars, scanVars, auxVars>>

\* the wipe thread, one turn of its loop up to the call: the test of
\* progress_dialog.cancelled, then self.engine.wipe_device(device['device'],
\* ...) for the next selected device
GuiWipeDevice(d) ==
    /\ d \in gui.queue
    /\ gui.dialog = "open" /\ gui.job = "none" /\ ~gui.cancelled
    /\ gui' = [gui EXCEPT !.queue = gui.queue \ {d},
                          !.wiped = gui.wiped \cup {d.name},
                          !.job = d.name]
    /\ UNCHANGED <<engineVars, callVars, scanVars, auxVars>>

\* the wipe thread: wipe_device returns (False when the job failed or the
\* engine's stop_requested made it end Cancelled); a False return or the end
\* of the list leads to progress_dialog.complete(success, error_message)
GuiWipeReturn(finished) ==
    /\ gui.job # "none"
    /\ LET device_success == finished /\ ~stop_requested
       IN  gui' = IF ~device_success
                  THEN [gui EXCEPT !.job = "none", !.queue = {},
                                   !.dialog = "failed"]
                  ELSE IF gui.queue = {}
                  THEN [gui EXCEPT !.job = "none", !.dialog = "success"]
                  ELSE [gui EXCEPT !.job = "none"]
    /\ UNCHANGED <<engineVars, callVars, scanVars, auxVars>>

\* the wipe thread: `if progress_dialog.cancelled: break`, then
\* progress_dialog.complete(success, error_message) with success still True
GuiWipeBreak ==
    /\ gui.dialog = "open" /\ gui.job = "none" /\ gui.queue # {}
    /\ gui.cancelled
    /\ gui' = [gui EXCEPT !.queue = {}, !.dialog = "success"]
    /\ UNCHANGED <<engineVars, callVars, scanVars, auxVars>>

\* WipeProgressDialog.cancel_wipe: the Cancel Wipe button, disabled by its
\* first press and enabled again (as Close) by complete()
GuiCancelWipe ==
    /\ gui.dialog # "none"
    /\ gui.dialog = "open" => ~gui.cancelled
    /\ gui' = [gui EXCEPT !.cancelled = TRUE]
    /\ UNCHANGED <<engineVars, callVars, scanVars, auxVars>>

GuiNext ==
    \/ GuiRefreshDevices
    \/ GuiDetectDevices
    \/ GuiPopulateDeviceList
    \/ \E d \in gui.device_checkboxes : GuiToggleDevice(d)
    \/ \E confirmed \in BOOLEAN : GuiStartWipe(confirmed)
    \/ \E d \in gui.queue : GuiWipeDevice(d)
    \/ \E finished \in BOOLEAN : GuiWipeReturn(finished)
    \/ GuiWipeBreak
    \/ GuiCancelWipe

GuiSpec == GuiInit /\ [][GuiNext]_vars

\* C15: the window calls wipe_device only for devices whose eligibility is
\* Ready: a device on which the call is made has no mounted file system,
\* neither at "/" (Protected) nor elsewhere (Mounted), on the disk or on a
\* partition.  (Stated as the claim; the selection tests the wipe_status of
\* the detected record, which is Ready for every device but one detected
\* with "/" among its mount points.)
C15_JobStartsOnlyWhenReady ==
    \A d \in machine.devices :
       d.name \in gui.wiped =>
          /\ d.mountpoint = ""
          /\ d.children \subseteq {""}

\* C38: a press of Cancel Wipe while a device is being wiped sets the stop
\* request of the engine, and a dialog whose Cancel Wipe was pressed during
\* a job does not report that all devices were wiped successfully.  (Stated
\* as the claim; cancel_wipe only sets the dialog's own cancelled flag.)
C38_CancelReachesEngine ==
    [][/\ (~gui.cancelled /\ gui'.cancelled /\ gui.job # "none") =>
             stop_requested'
       /\ (gui.cancelled /\ gui.job # "none" /\ gui'.job = "none") =>
             gui'.dialog # "success"]_vars

(***************************************************************************)
(* The confirmation token                                                  *)
(***************************************************************************)
\* os.path.basename: the text after the last "/"
RECURSIVE Basename(_)
Basename(path) ==
    IF \E i \in 1..Len(path) : path[i] = "/"
    THEN Basename(Tail(path))
    ELSE path

\* f"OBLITERATE-{os.path.basename(device).upper()}"
ExpectedToken ==
    <<"O", "B", "L", "I", "T", "E", "R", "A", "T", "E", "-">>
       \o Upper(Basename(DevicePath))

\* C19: a wipe that is no dry run and no Destroy issues a destructive
\* command (a write, an erase command, an HPA/DCO change) or changes a byte
\* of the device only if confirm_token is the expected token of the device.
\* (Stated as the claim; wipe_device never reads confirm_token.)
C19_TokenGatesWipe ==
    (method # "destroy" /\ ~dry_run /\ confirm_token # ExpectedToken) =>
       /\ issued \cap {"write", "security_set_pass", "security_erase",
                       "nvme_sanitize", "nvme_format", "hpa_reset",
                       "dco_restore"} = {}
       /\ \A i \in DOMAIN disk : disk[i] \in DataBytes

(***************************************************************************)
(* The capability probes called on their own, for every hardware profile   *)
(* and every outcome of the tool they run                                  *)
(***************************************************************************)

\* the engine of a machine with any of the hardware profiles; a probe and
\* the outcome its tool will have are chosen
ProbeInit ==
    /\ EngineInit
    /\ devSize = SmallDevSize /\ procMounts = {MountLines.OtherLine}
    /\ method = "destroy" /\ ~dry_run
    /\ calls = [c \in Calls |-> NoCall]
    /\ machine = NoMachine /\ scan = NoScan /\ gui = NoGui
    /\ parse = NoParse /\ cert = NoCert
    /\ probe \in [pc : {"call"},
                  kind : {"ata_secure_erase", "nvme_secure_erase", "hpa", "dco"},
                  tool : ToolOutcomes,
                  answer : {FALSE}]

\* the probe runs its tool and returns its answer
ProbeReturn ==
    /\ probe.pc = "call"
    /\ probe' = [probe EXCEPT
                   !.pc = "returned",
                   !.answer =
                      CASE probe.kind = "ata_secure_erase" -> CheckAtaSecureErase(probe.tool)
                        [] probe.kind = "nvme_secure_erase" -> CheckNvmeSecureErase(probe.tool)
                        [] probe.kind = "hpa" -> CheckHpa(probe.tool)
                        [] probe.kind = "dco" -> CheckDco(probe.tool)]
    /\ UNCHANGED <<engineVars, callVars, scanVars, guiVars, parse, cert>>


ProbeSpec == ProbeInit /\ [][ProbeReturn]_vars

\* C22: a capability probe whose tool failed (non-zero exit) or timed out
\* answers the safe default, unsupported or absent, whatever the hardware
\* is; it always returns an answer.
C22_ProbeSafeDefault ==
    /\ probe.pc = "returned" /\ probe.tool # "ok" => probe.answer = FALSE
    /\ probe.pc = "returned" => probe.answer \in BOOLEAN

\* the HPA probe of a drive that has a host protected area has returned
\* "absent" after its tool timed out
C22_Witness ==
    /\ probe.pc = "returned" /\ probe.kind = "hpa" /\ probe.tool = "timeout"
    /\ hpa /\ ~probe.answer

(***************************************************************************)
(* _parse_size called on its own, on every short text over a few           *)
(* characters                                                              *)
(***************************************************************************)
\* the longest size text tried
MaxSizeLen == 3

\* the texts of at most n characters over digits, the dot, the blank, two
\* unit letters (one small) and a letter that is no unit
RECURSIVE Texts(_)
Texts(n) ==
    IF n = 0 THEN {<<>>}
    ELSE Texts(n - 1) \cup
         {Append(t, ch) : t \in {x \in Texts(n - 1) : Len(x) = n - 1},
                          ch \in {"0", "5", ".", " ", "G", "t", "X"}}

ParseInit ==
    /\ EngineParked
    /\ calls = [c \in Calls |-> NoCall]
    /\ machine = NoMachine /\ scan = NoScan /\ gui = NoGui
    /\ probe = NoProbe /\ cert = NoCert
    /\ parse \in [pc : {"call"}, size_str : Texts(MaxSizeLen), value : {0}]

ParseReturn ==
    /\ parse.pc = "call"
    /\ parse' = [parse EXCEPT !.pc = "returned",
                              !.value = ParseSize(parse.size_str)]
    /\ UNCHANGED <<engineVars, callVars, scanVars, guiVars, probe, cert>>


ParseSpec == ParseInit /\ [][ParseReturn]_vars

\* C25: a count followed by G is count * 1024^3 and by T count * 1024^4
\* (Kilo stands for 1024), and a text that is no size, such as a number
\* followed by a letter that is no unit, gives 0.  (Stated as the claim;
\* _parse_size multiplies by 1 when the unit is not in its table.)
C25_SizeParsing ==
    parse.pc = "returned" =>
       LET str == parse.size_str
           n == PrefixLen(str, Digits)
           count == DigitsValue(SubSeq(str, 1, n))
           suffix == SubSeq(str, n + 1, Len(str))
       IN  /\ (n > 0 /\ suffix = <<"G">>) => parse.value = count * Power(Kilo, 3)
           /\ (n > 0 /\ suffix = <<"t">>) => parse.value = count * Power(Kilo, 4)
           /\ (\E i \in 1..Len(str) : str[i] = "X") => parse.value = 0

(***************************************************************************)
(* Certificates after a wipe: the window of obliterator/gui/main.py        *)
(* (flow "main") and the wipe queue and completion frame of                *)
(* gemini_ver/obliterator_gui.py (flow "gemini")                           *)
(***************************************************************************)
\* the most drives chosen for one operation
MaxDrives == 2

CertDevices == {"sda", "sdb", "sdc"}

\* the lists of at most n different drives
RECURSIVE DriveLists(_)
DriveLists(n) ==
    IF n = 0 THEN {<<>>}
    ELSE DriveLists(n - 1) \cup
         UNION {{Append(l, d) : d \in CertDevices \ {l[k] : k \in DOMAIN l}} :
                   l \in {x \in DriveLists(n - 1) : Len(x) = n - 1}}

\* dict[key] = value
DictPut(dict, key, value) ==
    [k \in DOMAIN dict \cup {key} |-> IF k = key THEN value ELSE dict[k]]

\* _wipe_single_device: an error when wipe.sh is missing, else the result
\* of the branch taken under "if True"
WipeSingleDevice(script_exists) ==
    IF ~script_exists THEN "error" ELSE "success"

\* the confirmation text has been typed (main) or the drives confirmed
\* (gemini); nothing has been wiped
CertInit ==
    /\ EngineParked
    /\ calls = [c \in Calls |-> NoCall]
    /\ machine = NoMachine /\ scan = NoScan /\ gui = NoGui
    /\ probe = NoProbe /\ parse = NoParse
    /\ \E flow \in {"main", "gemini", "v5"}, drives \in DriveLists(MaxDrives),
          script \in BOOLEAN :
          /\ drives # <<>>
          /\ flow = "v5" => Len(drives) = 1
          /\ cert = [NoCert EXCEPT
                       !.flow = flow, !.screen = "confirm",
                       !.wipe_script = script, !.selected_drives = drives,
                       !.wipe_outcome = [d \in CertDevices |-> "never"]]

\* start_wipe_operation with the confirmation text typed
StartWipeOperation ==
    /\ cert.flow = "main" /\ cert.screen = "confirm"
    /\ cert' = [cert EXCEPT !.wipe_in_progress = TRUE, !.screen = "progress",
                            !.pc = "loop", !.i = 1, !.results = <<>>]
    /\ UNCHANGED <<engineVars, callVars, scanVars, guiVars, probe, parse>>

\* one turn of the loop of _execute_wipe_background
ExecuteWipeStep ==
    /\ cert.flow = "main" /\ cert.pc = "loop"
    /\ cert.i <= Len(cert.selected_drives) /\ cert.wipe_in_progress
    /\ LET device == cert.selected_drives[cert.i]
           res == WipeSingleDevice(cert.wipe_script)
       IN  cert' = [cert EXCEPT
                      !.results = DictPut(@, device, res),
                      !.i = @ + 1,
                      !.wipe_outcome[device] =
                          IF res = "success" THEN "success" ELSE "failed"]
    /\ UNCHANGED <<engineVars, callVars, scanVars, guiVars, probe, parse>>

\* the loop of _execute_wipe_background has ended or was broken off
ExecuteWipeDone ==
    /\ cert.flow = "main" /\ cert.pc = "loop"
    /\ cert.i > Len(cert.selected_drives) \/ ~cert.wipe_in_progress
    /\ cert' = [cert EXCEPT
                  !.wipe_results = cert.results,
                  !.wipe_in_progress = FALSE,
                  !.pc = "idle",
                  !.screen = IF DOMAIN cert.results # {} THEN "complete"
                             ELSE "main",
                  !.message = IF DOMAIN cert.results # {} THEN @ ELSE "error"]
    /\ UNCHANGED <<engineVars, callVars, scanVars, guiVars, probe, parse>>

\* abort_wipe, answered with yes
AbortWipe ==
    /\ cert.flow = "main" /\ cert.screen = "progress" /\ cert.wipe_in_progress
    /\ cert' = [cert EXCEPT !.wipe_in_progress = FALSE, !.screen = "main"]
    /\ UNCHANGED <<engineVars, callVars, scanVars, guiVars, probe, parse>>

\* generate_certificate, the button of the completion screen
GenerateCertificate ==
    /\ cert.flow = "main" /\ cert.screen = "complete"
    /\ \E writable \in BOOLEAN :
          cert' = [cert EXCEPT
                     !.invoked = @ \cup {cert.selected_drives[k] :
                                           k \in DOMAIN cert.selected_drives},
                     !.files = IF writable
                               THEN @ \cup {[devices |-> cert.selected_drives,
                                             results |-> cert.wipe_results,
                                             signature |-> FALSE]}
                               ELSE @,
                     !.message = IF writable THEN "saved" ELSE "error"]
    /\ UNCHANGED <<engineVars, callVars, scanVars, guiVars, probe, parse>>

\* reset_and_return_main, the button "New Operation"
ResetAndReturnMain ==
    /\ cert.flow = "main" /\ cert.screen = "complete"
    /\ cert' = [cert EXCEPT !.selected_drives = <<>>, !.wipe_results = <<>>,
                            !.wipe_in_progress = FALSE, !.screen = "main"]
    /\ UNCHANGED <<engineVars, callVars, scanVars, guiVars, probe, parse>>

\* process_next_in_queue applied to the frame c
ProcessNextInQueue(c) ==
    IF c.device_queue = <<>>
    THEN [c EXCEPT !.screen = "completion", !.pc = "idle", !.current = "none"]
    ELSE [c EXCEPT !.current = Head(c.device_queue),
                   !.device_queue = Tail(c.device_queue),
                   !.pc = "wiping"]

\* a wipe_finished that leaves the queue as it is after a failure
WipeFinishedKeepsQueue(c, ok, device) ==
    LET noted == [c EXCEPT
                    !.log = Append(@, [ev |-> "finished", device |-> device,
                                       ok |-> ok]),
                    !.wipe_outcome[device] = IF ok THEN "success" ELSE "failed"]
    IN  ProcessNextInQueue(
           IF ok THEN [noted EXCEPT !.wiped_devices = Append(@, device)]
           ELSE noted)
\* wipe_finished(success, device_data) applied to the frame c; the call is
\* noted in the log and as the outcome of the device
WipeFinished(c, ok, device) ==
    LET noted == [c EXCEPT
                    !.log = Append(@, [ev |-> "finished", device |-> device,
                                       ok |-> ok]),
                    !.wipe_outcome[device] = IF ok THEN "success" ELSE "failed"]
    IN  ProcessNextInQueue(
           IF ok THEN [noted EXCEPT !.wiped_devices = Append(@, device)]
           ELSE [noted EXCEPT !.device_queue = <<>>])

\* start_wipe_queue(devices)
StartWipeQueue ==
    /\ cert.flow = "gemini" /\ cert.screen = "confirm"
    /\ cert' = ProcessNextInQueue(
                  [cert EXCEPT !.device_queue = cert.selected_drives,
                               !.wiped_devices = <<>>,
                               !.screen = "progress"])
    /\ UNCHANGED <<engineVars, callVars, scanVars, guiVars, probe, parse>>

\* run_wipe_script for the drive taken from the queue: without a wipe
\* script, or when Popen raises, wipe_finished(False); else the process and
\* its two reader threads are started and check_queues is scheduled
RunWipeScript ==
    /\ cert.flow = "gemini" /\ cert.pc = "wiping"
    /\ \E launched \in BOOLEAN :
          cert' = IF cert.wipe_script /\ launched
                  THEN [cert EXCEPT
                          !.pc = "polling", !.process = "running",
                          !.stdout = "none", !.q_out = "none",
                          !.log = Append(@, [ev |-> "start",
                                             device |-> cert.current,
                                             ok |-> TRUE])]
                  ELSE WipeFinished(cert, FALSE, cert.current)
    /\ UNCHANGED <<engineVars, callVars, scanVars, guiVars, probe, parse>>

\* the wipe script writes its status line to stdout
ScriptPrints(line) ==
    /\ cert.pc = "polling" /\ cert.process = "running"
    /\ cert.stdout = "none" /\ cert.q_out = "none"
    /\ cert' = [cert EXCEPT !.stdout = line]
    /\ UNCHANGED <<engineVars, callVars, scanVars, guiVars, probe, parse>>

\* the wipe script exits with code 0 or with another code
ScriptExits(code) ==
    /\ cert.pc = "polling" /\ cert.process = "running"
    /\ cert' = [cert EXCEPT !.process = code]
    /\ UNCHANGED <<engineVars, callVars, scanVars, guiVars, probe, parse>>

\* read_stream on stdout: the thread moves a line from the pipe to q_out
ReadStream ==
    /\ cert.pc \in {"polling", "stalled"} /\ cert.stdout # "none"
    /\ cert' = [cert EXCEPT !.q_out = cert.stdout, !.stdout = "none"]
    /\ UNCHANGED <<engineVars, callVars, scanVars, guiVars, probe, parse>>

\* check_queues, the callback run every 100 ms: a status line found in q_out
\* ends the wipe; else the callback is scheduled again while the process
\* runs, a non-zero exit code ends the wipe as failed, and with exit code 0
\* the callback returns with nothing scheduled ("stalled")
CheckQueues ==
    /\ cert.flow = "gemini" /\ cert.pc = "polling"
    /\ LET drained == [cert EXCEPT !.q_out = "none"]
       IN  cert' =
             IF cert.q_out = "success"
             THEN WipeFinished(drained, TRUE, cert.current)
             ELSE IF cert.q_out = "failed"
             THEN WipeFinished(drained, FALSE, cert.current)
             ELSE IF cert.process = "running" THEN cert
             ELSE IF cert.process # "exit0"
             THEN WipeFinished(cert, FALSE, cert.current)
             ELSE [cert EXCEPT !.pc = "stalled",
                               !.wipe_outcome[cert.current] = "silent"]
    /\ UNCHANGED <<engineVars, callVars, scanVars, guiVars, probe, parse>>

\* generate_certificates, the button of the completion frame
GenerateCertificates ==
    /\ cert.flow = "gemini" /\ cert.screen = "completion" /\ cert.pc = "idle"
    /\ cert' = [cert EXCEPT !.pc = "certs", !.todo = cert.wiped_devices,
                            !.success_count = 0]
    /\ UNCHANGED <<engineVars, callVars, scanVars, guiVars, probe, parse>>

\* one turn of the loop of run_certificate_generation: the generator script
\* is missing or not executable, it fails or times out, it leaves no JSON
\* file, it leaves one that does not parse, or it leaves a good one
RunCertificateStep ==
    /\ cert.flow = "gemini" /\ cert.pc = "certs" /\ cert.todo # <<>>
    /\ \E end \in {"missing", "failed", "nofile", "badjson", "json"} :
          cert' = [cert EXCEPT
                     !.todo = Tail(@),
                     !.invoked = IF end = "missing" THEN @
                                 ELSE @ \cup {Head(cert.todo)},
                     !.success_count = IF end = "json" THEN @ + 1 ELSE @]
    /\ UNCHANGED <<engineVars, callVars, scanVars, guiVars, probe, parse>>

\* the loop of run_certificate_generation has ended
RunCertificateDone ==
    /\ cert.flow = "gemini" /\ cert.pc = "certs" /\ cert.todo = <<>>
    /\ cert' = [cert EXCEPT
                  !.pc = "idle",
                  !.message = IF cert.success_count = Len(cert.wiped_devices)
                              THEN "all generated" ELSE "some failed"]
    /\ UNCHANGED <<engineVars, callVars, scanVars, guiVars, probe, parse>>

\* wipe_finished(success) of the version 5.0 window (oblitrator_gui.py),
\* success written  wiped,  and the generate_certificate it calls when the
\* wipe succeeded: the payload is built, the
\* private key is loaded and signs the serialized payload; the container is
\* built with base64.b64encode, a name the file never imports, so the
\* NameError goes to the except clause, which logs, before any file is
\* opened for writing
SignedCertificate ==
    /\ cert.flow = "v5" /\ cert.screen = "confirm"
    /\ \E wiped \in BOOLEAN, key_loaded \in BOOLEAN :
          LET base64_imported == FALSE
              cert_payload == [devices |-> cert.selected_drives,
                               results |-> <<"Success">>]
              written == wiped /\ key_loaded /\ base64_imported
          IN  cert' = [cert EXCEPT
                         !.screen = "complete",
                         !.wipe_outcome[cert.selected_drives[1]] =
                             IF wiped THEN "success" ELSE "failed",
                         !.invoked = IF wiped
                                     THEN @ \cup {cert.selected_drives[1]}
                                     ELSE @,
                         !.files = IF written
                                   THEN @ \cup {[devices |-> cert_payload.devices,
                                                 results |-> cert_payload.results,
                                                 signature |-> TRUE,
                                                 signed |-> cert_payload]}
                                   ELSE @,
                         !.message = IF ~wiped THEN "none"
                                     ELSE IF written THEN "saved" ELSE "error"]
    /\ UNCHANGED <<engineVars, callVars, scanVars, guiVars, probe, parse>>

\* the signature check of a certificate loaded from disk: the file carries a
\* signature and it was made over the payload the file embeds
CertificateVerifies(f) ==
    f.signature /\ f.signed = [devices |-> f.devices, results |-> f.results]

CertNext ==
    \/ StartWipeOperation
    \/ ExecuteWipeStep
    \/ ExecuteWipeDone
    \/ AbortWipe
    \/ GenerateCertificate
    \/ ResetAndReturnMain
    \/ StartWipeQueue
    \/ RunWipeScript
    \/ \E line \in {"success", "failed"} : ScriptPrints(line)
    \/ \E code \in {"exit0", "exit1"} : ScriptExits(code)
    \/ ReadStream
    \/ CheckQueues
    \/ GenerateCertificates
    \/ RunCertificateStep
    \/ RunCertificateDone
    \/ SignedCertificate

CertSpec == CertInit /\ [][CertNext]_vars

\* C29: every certificate file the program has written carries a signature
\* over its payload; none is emitted unsigned.  (Stated as the claim;
\* generate_certificate writes its record with no signature field.)
C29_CertificateFilesSigned ==
    \A f \in cert.files : f.signature

\* C30: certificate generation is invoked only for drives whose wipe
\* finished with success, never for one whose wipe failed, was skipped after
\* the queue halted, or never ran.  (Stated as the claim; generate_certificate
\* covers every selected drive.)
C30_CertificateOnlyAfterSuccess ==
    \A d \in cert.invoked : cert.wipe_outcome[d] = "success"

\* C39: once the wipe subprocess of a started device has exited, either
\* wipe_finished has been called for the device or a check_queues callback
\* is still scheduled: the queue is never left with the process gone, no
\* callback pending and the device unfinished.  (Stated as the claim;
\* check_queues schedules nothing and calls nothing when the exit code is 0
\* and no status line is in q_out.)
C39_QueueNeverStalls ==
    (cert.flow = "gemini" /\ cert.process \in {"exit0", "exit1"}) =>
       cert.pc # "stalled"

\* C40: when the wipe script of a device is started, wipe_finished has been
\* called for every device whose script was started before, and no
\* wipe_finished call of the run has reported a failure.
C40_QueueIsSequential ==
    \A i \in 1..Len(cert.log) :
       cert.log[i].ev = "start" =>
          \A j \in 1..(i - 1) :
             /\ cert.log[j].ev = "start" =>
                   \E k \in (j + 1)..(i - 1) :
                      /\ cert.log[k].ev = "finished"
                      /\ cert.log[k].device = cert.log[j].device
             /\ cert.log[j].ev = "finished" => cert.log[j].ok

\* the script of a second device has been started
C40_SecondDeviceStarted ==
    \E i \in 2..Len(cert.log) : cert.log[i].ev = "start"

\* C31: every certificate file the program has written passes the signature
\* check against the payload it embeds, and the same file with its payload
\* changed does not.  (Stated as the claim; the files written carry no
\* signature, and the one signing routine writes no file.)
C31_CertificateVerifies ==
    \A f \in cert.files :
       /\ CertificateVerifies(f)
       /\ \A l \in DriveLists(MaxDrives) \ {f.devices} :
             ~CertificateVerifies([f EXCEPT !.devices = l])

====
